---- MODULE Spec2Model ----
(***************************************************************************)
(* Blue Pulse (usr/share/blue_pulse.py): the audio-device reconciliation   *)
(* loop of the control panel.  The mixer (pactl) and the Bluetooth daemon  *)
(* (BlueZ over D-Bus) are the environment; VolumeController, its polling   *)
(* thread, the Qt event queue, the single-shot timers and PairWorker are   *)
(* the program.                                                            *)
(*                                                                         *)
(* Strings are sequences of one-character strings, so that lower(),        *)
(* replace() and startswith() are computed, not assumed.                   *)
(***************************************************************************)
EXTENDS Integers, Sequences, FiniteSets

VARIABLES
    \* ---- the mixer behind pactl (environment)
    m_sinks, m_sources,            \* what "pactl list sinks/sources" would print
    m_default_sink, m_default_source,
    m_cards,                       \* what "pactl list cards" would print
    env_steps,                     \* number of external mixer changes so far
    failures,                      \* number of pactl calls that exited non-zero so far
    \* ---- VolumeController fields
    sinks, sources, default_sink, default_source,
    \* ---- the polling thread (poll_audio_events)
    poll_pc, previous_sinks, previous_sources, current_sinks, poll_failed,
    \* ---- the GUI thread and the Qt event queue
    gui_pc,                        \* position of the handler the GUI thread is in
    gui_call,                      \* the handler running: [kind, addr, sid, sink, source]
    devq,                          \* queued emit_devices_updated invocations
    refresh_timers,                \* pending singleShot(..., refresh_all_devices)
    profile_timers,                \* pending singleShot(5000, set_bluetooth_profile)
    session_timers,                \* pending singleShot(5000, set_device_as_default_sink_and_source)
    buttons_enabled,               \* pair_button / unpair_button isEnabled
    \* ---- the pairing thread (PairWorker) and its queued pairingResult
    pair_worker, pair_results,
    \* ---- the Bluetooth daemon's object tree (environment)
    bt_tree, bt_paired, bt_connected,
    \* ---- observation: what each pairing session did, in order
    slog,
    \* ---- observation of the last poll tick and of the last query outcomes
    tick,                          \* what the last completed poll tick saw and did
    failed,                        \* the queries that exited non-zero in the last step
    watch,                         \* the snapshot held when a sources-only change was signalled
    \* ---- the volume the mixer keeps for each sink, and one set/get exchange with it
    m_volume, vol,
    \* ---- the unpairing thread (UnpairWorker), its queued unpairingResult, and
    \* ---- observation: what each unpair request did
    unpair_worker, unpair_results, unpair_log,
    \* ---- main(): where it is, the agent registered with the daemon, the
    \* ---- PropertiesChanged receiver added on the bus, the GLib loop's thread
    main_pc, agent_registered, receiver_added, glib_loop,
    \* ---- the entries shown as current by the output and the input selector
    device_selector, input_selector,
    \* ---- the mute switch the mixer keeps for each sink, the controller's cached
    \* ---- is_muted, and observation of the last call of set_volume
    m_mute, is_muted, volume_call,
    \* ---- osd.py, read_keyboard_events: the keys held on the keyboard and the
    \* ---- monotonic clock (environment), the reader's alt_pressed and
    \* ---- last_event_times, and observation of the signal emitted last
    kbd_held, kbd_clock, alt_pressed, last_event_times, osd_emitted,
    \* ---- albix.py, the player's window: self.playlist, self.current_song_index
    \* ---- and self.shuffle_mode
    playlist, current_song_index, shuffle_mode

mixerVars == <<m_sinks, m_sources, m_default_sink, m_default_source, m_cards, env_steps>>
ctlVars   == <<sinks, sources, default_sink, default_source>>
pollVars  == <<poll_pc, previous_sinks, previous_sources, current_sinks, poll_failed>>
guiVars   == <<gui_pc, gui_call, devq, refresh_timers>>
pairVars  == <<profile_timers, session_timers, buttons_enabled, pair_worker, pair_results>>
btVars    == <<bt_tree, bt_paired, bt_connected>>
obsVars   == <<tick, failed, watch>>
volVars   == <<m_volume, vol>>
unpairVars == <<unpair_worker, unpair_results, unpair_log>>
mainVars  == <<main_pc, agent_registered, receiver_added, glib_loop>>
selVars   == <<device_selector, input_selector>>
muteVars  == <<m_mute, is_muted, volume_call>>
osdVars   == <<kbd_held, kbd_clock, alt_pressed, last_event_times, osd_emitted>>
albixVars == <<playlist, current_song_index, shuffle_mode>>
toolVars  == <<osdVars, albixVars>>
extVars   == <<volVars, unpairVars, mainVars, selVars, muteVars, toolVars>>
bpVars    == <<mixerVars, failures, ctlVars, pollVars, guiVars, pairVars, btVars, slog, obsVars,
               volVars, unpairVars, mainVars, selVars, muteVars>>
vars      == <<mixerVars, failures, ctlVars, pollVars, guiVars, pairVars, btVars, slog, obsVars,
               extVars>>

(***************************************************************************)
(* Bounds of the model                                                     *)
(***************************************************************************)
MaxEnvSteps == 1      \* external changes of the mixer's lists in one run
MaxLoaded   == 2      \* entries of a playlist file that load_playlist reads
MaxFailures == 1      \* pactl calls that exit non-zero in one run
MaxQueue    == 1      \* queued emit_devices_updated invocations not yet handled
MaxRequests == 1      \* Pair-button presses and double clicks in one run
MaxSignals  == 2      \* refreshes pending at once after PropertiesChanged signals
MaxClock    == 4      \* how far the key reader clock runs, in units of 50 ms
MaxUnpairs  == 2      \* Unpair-button presses in one run

(***************************************************************************)
(* Strings                                                                 *)
(***************************************************************************)
Empty == << >>

Lower(c) ==
    CASE c = "A" -> "a" [] c = "B" -> "b" [] c = "C" -> "c"
      [] c = "D" -> "d" [] c = "E" -> "e" [] c = "F" -> "f"
      [] c = "M" -> "m" [] c = "P" -> "p" [] c = "W" -> "w"
      [] OTHER -> c

StrLower(s) == [i \in 1..Len(s) |-> Lower(s[i])]

StrReplace(s, old, new) == [i \in 1..Len(s) |-> IF s[i] = old THEN new ELSE s[i]]

StartsWith(s, p) == Len(p) <= Len(s) /\ SubSeq(s, 1, Len(p)) = p

AddrA == <<"A","A",":","B","B",":","C","C",":","D","D",":","E","E",":","0","1">>
AddrB == <<"A","A",":","B","B",":","C","C",":","D","D",":","E","E",":","0","2">>
Addr  == {AddrA, AddrB}

BluezSinkDot   == <<"b","l","u","e","z","_","s","i","n","k",".">>
BluezSourceDot == <<"b","l","u","e","z","_","s","o","u","r","c","e",".">>
BluezCardDot   == <<"b","l","u","e","z","_","c","a","r","d",".">>
Pipewire       == <<"p","i","p","e","w","i","r","e">>

\* address.replace(":", "_").lower()
PaAddress(address) == StrLower(StrReplace(address, ":", "_"))

\* The names the mixer gives a Bluetooth device's endpoints and card.
A2dp == <<".","a","2","d","p">>
Hsp  == <<".","h","s","p">>
MixerSinkName(a, sfx) == BluezSinkDot \o PaAddress(a) \o sfx
MixerSourceName(a)    == BluezSourceDot \o PaAddress(a) \o A2dp
MixerCardName(a)      == BluezCardDot \o PaAddress(a)
AlsaSink   == <<"a","l","s","a","_","o","u","t">>
AlsaSource == <<"a","l","s","a","_","i","n">>
AlsaCard   == <<"a","l","s","a","_","c","a","r","d">>

SinkNames   == {AlsaSink, MixerSinkName(AddrA, A2dp), MixerSinkName(AddrA, Hsp),
                MixerSinkName(AddrB, A2dp)}
SourceNames == {AlsaSource, MixerSourceName(AddrA), MixerSourceName(AddrB)}
CardNames   == {AlsaCard, MixerCardName(AddrA), MixerCardName(AddrB)}

\* osd.py line 265: MIN_INTERVAL = 0.1 s, in the clock's units of 50 ms
MinInterval == 2

\* the mixer's volume for 100% (what "pactl set-sink-volume <sink> 100%" stores)
VolumeNorm == 65536

InSeq(x, s) == \E i \in 1..Len(s) : s[i] = x

RECURSIVE Without(_, _)
Without(s, x) ==
    IF s = << >> THEN << >>
    ELSE IF Head(s) = x THEN Without(Tail(s), x)
    ELSE <<Head(s)>> \o Without(Tail(s), x)

(***************************************************************************)
(* pactl: run_pactl_command returns "" when pactl exits non-zero, and the  *)
(* callers parse that as an empty listing / an empty name.  `fail` is the  *)
(* outcome of the one subprocess call.  A listed device is identified by   *)
(* its Name: line.                                                         *)
(***************************************************************************)
list_sinks(fail)   == IF fail THEN << >> ELSE m_sinks
list_sources(fail) == IF fail THEN << >> ELSE m_sources

get_default_sink(fail, fail_list) ==
    LET output == IF fail THEN Empty ELSE m_default_sink
        ls     == list_sinks(fail_list)
    IN  IF StrLower(output) = Pipewire /\ ls # << >> THEN ls[1] ELSE output

get_default_source(fail, fail_list) ==
    LET output == IF fail THEN Empty ELSE m_default_source
        ls     == list_sources(fail_list)
    IN  IF StrLower(output) = Pipewire /\ ls # << >> THEN ls[1] ELSE output

(***************************************************************************)
(* The mixer changing under the program: endpoints and cards appear (at    *)
(* the end of the listing, with the next index) and disappear.  When the   *)
(* default endpoint disappears the mixer falls back to the first one left, *)
(* and to its placeholder name when none is left.                          *)
(***************************************************************************)
Fallback(rest) == IF rest # << >> THEN rest[1] ELSE Pipewire

MixerSinkAppears(n) ==
    /\ env_steps < MaxEnvSteps
    /\ ~InSeq(n, m_sinks)
    /\ m_sinks' = Append(m_sinks, n)
    /\ m_default_sink' = IF m_default_sink \in {Empty, Pipewire} THEN n ELSE m_default_sink
    /\ env_steps' = env_steps + 1
    /\ watch' = [watch EXCEPT !.on = FALSE]
    /\ failed' = {}
    /\ UNCHANGED <<m_sources, m_default_source, m_cards, failures, ctlVars, pollVars,
                   guiVars, pairVars, btVars, slog, tick>>
    /\ UNCHANGED extVars

MixerSinkDisappears(n) ==
    /\ env_steps < MaxEnvSteps
    /\ InSeq(n, m_sinks)
    /\ m_sinks' = Without(m_sinks, n)
    /\ m_default_sink' = IF m_default_sink = n THEN Fallback(Without(m_sinks, n))
                         ELSE m_default_sink
    /\ env_steps' = env_steps + 1
    /\ watch' = [watch EXCEPT !.on = FALSE]
    /\ failed' = {}
    /\ UNCHANGED <<m_sources, m_default_source, m_cards, failures, ctlVars, pollVars,
                   guiVars, pairVars, btVars, slog, tick>>
    /\ UNCHANGED extVars

MixerSourceAppears(n) ==
    /\ env_steps < MaxEnvSteps
    /\ ~InSeq(n, m_sources)
    /\ m_sources' = Append(m_sources, n)
    /\ m_default_source' = IF m_default_source \in {Empty, Pipewire} THEN n
                           ELSE m_default_source
    /\ env_steps' = env_steps + 1
    /\ failed' = {}
    /\ UNCHANGED <<m_sinks, m_default_sink, m_cards, failures, ctlVars, pollVars,
                   guiVars, pairVars, btVars, slog, tick, watch>>
    /\ UNCHANGED extVars

MixerSourceDisappears(n) ==
    /\ env_steps < MaxEnvSteps
    /\ InSeq(n, m_sources)
    /\ m_sources' = Without(m_sources, n)
    /\ m_default_source' = IF m_default_source = n THEN Fallback(Without(m_sources, n))
                           ELSE m_default_source
    /\ env_steps' = env_steps + 1
    /\ failed' = {}
    /\ UNCHANGED <<m_sinks, m_default_sink, m_cards, failures, ctlVars, pollVars,
                   guiVars, pairVars, btVars, slog, tick, watch>>
    /\ UNCHANGED extVars

\* Another client of the mixer makes a listed endpoint the default one.
MixerDefaultSinkChanges(n) ==
    /\ env_steps < MaxEnvSteps
    /\ InSeq(n, m_sinks)
    /\ n # m_default_sink
    /\ m_default_sink' = n
    /\ env_steps' = env_steps + 1
    /\ failed' = {}
    /\ UNCHANGED <<m_sinks, m_sources, m_default_source, m_cards, failures, ctlVars, pollVars,
                   guiVars, pairVars, btVars, slog, tick, watch>>
    /\ UNCHANGED extVars

MixerDefaultSourceChanges(n) ==
    /\ env_steps < MaxEnvSteps
    /\ InSeq(n, m_sources)
    /\ n # m_default_source
    /\ m_default_source' = n
    /\ env_steps' = env_steps + 1
    /\ failed' = {}
    /\ UNCHANGED <<m_sinks, m_sources, m_default_sink, m_cards, failures, ctlVars, pollVars,
                   guiVars, pairVars, btVars, slog, tick, watch>>
    /\ UNCHANGED extVars

(***************************************************************************)
(* The outcomes of a step's pactl calls: `fs` are the calls that exit      *)
(* non-zero, out of the calls `qs` the step makes.                         *)
(***************************************************************************)
Outcomes(qs) == {fs \in SUBSET qs : failures + Cardinality(fs) <= MaxFailures}

Fails(fs) ==
    /\ failures' = failures + Cardinality(fs)
    /\ failed' = fs

(***************************************************************************)
(* The volume of a sink: set_sink_volume_cmd writes "<volume>%" on the     *)
(* command line of pactl set-sink-volume, get_sink_volume_cmd searches the *)
(* output of pactl get-sink-volume.  The mixer keeps a volume as a number  *)
(* of VolumeNorm-ths and prints it per channel of the sink's channel map:  *)
(*   Volume: front-left: 27525 / 42% / dB, front-right: 27525 / 42% / dB   *)
(***************************************************************************)
MaxVolume == 100

DigitChars == <<"0","1","2","3","4","5","6","7","8","9">>
IsDigit(c) == \E d \in DOMAIN DigitChars : DigitChars[d] = c
DigitValue(c) == (CHOOSE d \in DOMAIN DigitChars : DigitChars[d] = c) - 1

\* str(n) and int(s) for decimal numerals
RECURSIVE Decimal(_)
Decimal(n) ==
    IF n < 10 THEN <<DigitChars[n + 1]>>
    ELSE Decimal(n \div 10) \o <<DigitChars[(n % 10) + 1]>>

RECURSIVE ParseInt(_)
ParseInt(s) ==
    IF s = << >> THEN 0
    ELSE 10 * ParseInt(SubSeq(s, 1, Len(s) - 1)) + DigitValue(s[Len(s)])

\* f"{volume}%"
VolumeArgument(volume) == Decimal(volume) \o <<"%">>

\* ---- the mixer's side
FrontLeft  == <<"f","r","o","n","t","-","l","e","f","t">>
FrontRight == <<"f","r","o","n","t","-","r","i","g","h","t">>
Mono       == <<"m","o","n","o">>

\* A headset-profile sink has one channel, the others are stereo.
ChannelMap(sink) ==
    IF sink = MixerSinkName(AddrA, Hsp) THEN <<Mono>> ELSE <<FrontLeft, FrontRight>>

MixerStores(argument) ==
    (ParseInt(SubSeq(argument, 1, Len(argument) - 1)) * VolumeNorm) \div 100

MixerPercent(raw) == (raw * 100 + VolumeNorm \div 2) \div VolumeNorm

RECURSIVE MixerPrintsChannels(_, _)
MixerPrintsChannels(channels, raw) ==
    IF channels = << >> THEN << >>
    ELSE Head(channels) \o <<":"," ">> \o Decimal(raw) \o <<" ","/"," ">>
         \o Decimal(MixerPercent(raw)) \o <<"%"," ","/"," ","d","B">>
         \o (IF Tail(channels) = << >> THEN << >> ELSE <<","," ">>)
         \o MixerPrintsChannels(Tail(channels), raw)

MixerPrints(channels, raw) ==
    <<"V","o","l","u","m","e",":"," ">> \o MixerPrintsChannels(channels, raw)

\* ---- re.search(r'front-left:.*?(\d+)%', output), then int(match.group(1));
\* 0 when nothing matches
MatchAt(s, p, pat) == p + Len(pat) - 1 <= Len(s) /\ SubSeq(s, p, p + Len(pat) - 1) = pat

RunEnd(s, j) ==
    CHOOSE k \in j..Len(s) :
        /\ \A i \in j..k : IsDigit(s[i])
        /\ k = Len(s) \/ ~IsDigit(s[k + 1])

PercentAt(s, j) ==
    /\ IsDigit(s[j])
    /\ RunEnd(s, j) < Len(s)
    /\ s[RunEnd(s, j) + 1] = "%"

Least(S) == CHOOSE x \in S : \A y \in S : x <= y

SearchFrontLeftPercent(output) ==
    LET key    == FrontLeft \o <<":">>
        after(p) == {j \in (p + Len(key))..Len(output) : PercentAt(output, j)}
        starts == {p \in 1..Len(output) : MatchAt(output, p, key) /\ after(p) # {}}
    IN  IF starts = {} THEN 0
        ELSE LET j == Least(after(Least(starts)))
             IN  ParseInt(SubSeq(output, j, RunEnd(output, j)))

(***************************************************************************)
(* The mute switch of a sink: pactl get-sink-mute prints "Mute: yes" or    *)
(* "Mute: no"; get_sink_mute_cmd (lines 152-157) looks for 'yes' in the    *)
(* lowered output.  A pactl call that names a sink the mixer does not have *)
(* exits non-zero, and so prints nothing and changes nothing.              *)
(***************************************************************************)
MixerPrintsMute(muted) ==
    <<"M","u","t","e",":"," ">> \o (IF muted THEN <<"y","e","s">> ELSE <<"n","o">>)

Contains(s, pat) == \E p \in 1..Len(s) : MatchAt(s, p, pat)

get_sink_mute_cmd(output) == Contains(StrLower(output), <<"y","e","s">>)

KnownSink(sink) == sink \in SinkNames /\ InSeq(sink, m_sinks)

\* What get_sink_volume_cmd (lines 126-135) finds in the mixer's output, for
\* each channel map and each volume that set_sink_volume_cmd can have stored.
ReadBack ==
    [channels \in {<<Mono>>, <<FrontLeft, FrontRight>>} |->
        [raw \in {MixerStores(VolumeArgument(v)) : v \in 0..MaxVolume} |->
            SearchFrontLeftPercent(MixerPrints(channels, raw))]]

SinkVolumeRead(sink, fail) ==
    IF KnownSink(sink) /\ ~fail THEN ReadBack[ChannelMap(sink)][m_volume[sink]]
    ELSE SearchFrontLeftPercent(Empty)

SinkMuteOutput(sink, mutes, fail) ==
    IF KnownSink(sink) /\ ~fail THEN MixerPrintsMute(mutes[sink]) ELSE Empty

\* VolumeBar.setVolume (line 213): max(0, min(volume, 100))
ClampVolume(volume) ==
    IF volume > MaxVolume THEN MaxVolume ELSE IF volume < 0 THEN 0 ELSE volume

(***************************************************************************)
(* set_volume (lines 560-565), the slot of the output bar's volumeChanged  *)
(* (line 402): every VolumeBar.setVolume emits it (line 215), so the slot  *)
(* runs when the user moves the bar and whenever the program sets the bar. *)
(* It unmutes the default sink only when the cached is_muted is set.       *)
(***************************************************************************)
NoVolumeCall == [value |-> 0, sink |-> Empty, turn |-> 0]

VolumeSet(sink, value, fail) ==
    IF KnownSink(sink) /\ ~fail
    THEN [m_volume EXCEPT ![sink] = MixerStores(VolumeArgument(value))]
    ELSE m_volume

MuteCleared(sink, value, fail) ==
    IF is_muted /\ value > 0 /\ KnownSink(sink) /\ ~fail
    THEN [m_mute EXCEPT ![sink] = FALSE]
    ELSE m_mute

set_volume(sink, value, fs) ==
    /\ m_volume' = VolumeSet(sink, value, "set_sink_volume" \in fs)
    /\ m_mute' = MuteCleared(sink, value, "set_sink_mute" \in fs)
    /\ is_muted' = (is_muted /\ ~(value > 0))
    /\ volume_call' = [value |-> value, sink |-> sink, turn |-> 1 - volume_call.turn]

\* lines 869-871 (and 1018-1019): the bar is set to the volume read for the
\* sink, which runs set_volume with that volume.  These calls are taken to be
\* answered whenever the mixer has the sink.
BarFollows(sink) ==
    \E volume \in {SinkVolumeRead(sink, FALSE)} :
        set_volume(sink, ClampVolume(volume), {})

(***************************************************************************)
(* refresh_audio_devices, in the GUI thread.  Lines 854-857 list the sinks *)
(* and sources twice (populate_*_devices list again and their result is    *)
(* the one kept); lines 860-861 then ask for the defaults.  The mixer may  *)
(* change between the two groups of queries.                               *)
(***************************************************************************)
\* populate_output_devices, populate_input_devices (lines 495-529): the entry
\* made current is the one named default_name; a combo box that was cleared and
\* filled again shows its first entry when none is made current, and none
\* when it has no entry.
SelectedEntry(list, default_name) ==
    IF list = << >> THEN Empty
    ELSE IF InSeq(default_name, list) THEN default_name
    ELSE list[1]

NoCall == [kind |-> "none", addr |-> Empty, sid |-> 0, sink |-> Empty, source |-> Empty]

RefreshLists ==
    /\ \E fs \in Outcomes({"sinks", "sources"}) :
         /\ sinks' = list_sinks("sinks" \in fs)
         /\ sources' = list_sources("sources" \in fs)
         /\ device_selector' = SelectedEntry(list_sinks("sinks" \in fs), default_sink)
         /\ input_selector' = SelectedEntry(list_sources("sources" \in fs), default_source)
         /\ Fails(fs)
    /\ watch' = [watch EXCEPT !.on = FALSE]
    /\ gui_pc' = "refresh_defaults"
    /\ UNCHANGED <<default_sink, default_source>>
    /\ UNCHANGED <<volVars, unpairVars, mainVars, muteVars, toolVars>>

\* devices_updated is connected to refresh_audio_devices (line 271); the queued
\* emit_devices_updated invocation runs it when the GUI thread is idle.
HandleDevicesUpdated ==
    /\ gui_pc = "idle"
    /\ devq > 0
    /\ devq' = devq - 1
    /\ gui_call' = [NoCall EXCEPT !.kind = "devices_updated"]
    /\ RefreshLists
    /\ UNCHANGED <<mixerVars, pollVars, refresh_timers, pairVars, btVars, slog, tick>>

\* The Refresh button (line 455), refresh_all_devices.
RefreshButton ==
    /\ gui_pc = "idle"
    /\ gui_call' = [NoCall EXCEPT !.kind = "refresh_all"]
    /\ RefreshLists
    /\ UNCHANGED <<mixerVars, pollVars, devq, refresh_timers, pairVars, btVars, slog, tick>>

RefreshDefaults ==
    /\ gui_pc = "refresh_defaults"
    /\ gui_call.kind \in {"devices_updated", "refresh_all"}
    /\ \E fs \in Outcomes({"default_sink", "default_source"}) :
         /\ \E name \in {get_default_sink("default_sink" \in fs, FALSE)} :
              /\ default_sink' = name
              /\ BarFollows(name)
         /\ default_source' = get_default_source("default_source" \in fs, FALSE)
         /\ Fails(fs)
    /\ gui_pc' = "idle"
    /\ gui_call' = NoCall
    /\ UNCHANGED <<mixerVars, sinks, sources, pollVars, devq, refresh_timers,
                   pairVars, btVars, slog, tick, watch>>
    /\ UNCHANGED <<vol, unpairVars, mainVars, selVars, toolVars>>

(***************************************************************************)
(* poll_audio_events, in its own thread: the baseline listing, then every  *)
(* poll_interval a listing of the sinks, a listing of the sources, and the *)
(* comparison with the baseline.                                           *)
(***************************************************************************)
PollBaseline ==
    /\ poll_pc = "start"
    /\ \E fs \in Outcomes({"sinks", "sources"}) :
         /\ previous_sinks' = list_sinks("sinks" \in fs)
         /\ previous_sources' = list_sources("sources" \in fs)
         /\ tick' = [done |-> FALSE, sinks |-> list_sinks("sinks" \in fs),
                     sources |-> list_sources("sources" \in fs),
                     same_sinks |-> FALSE, same_sources |-> FALSE, emitted |-> 0,
                     mixer_sinks |-> m_sinks, mixer_sources |-> m_sources,
                     now_sinks |-> << >>, genuine |-> FALSE]
         /\ failures' = failures + Cardinality(fs)
         /\ failed' = {}
    /\ poll_pc' = "sleep"
    /\ UNCHANGED <<mixerVars, ctlVars, current_sinks, poll_failed, guiVars, pairVars, btVars, slog, watch>>
    /\ UNCHANGED extVars

PollListSinks ==
    /\ poll_pc = "sleep"
    /\ \E fs \in Outcomes({"sinks"}) :
         /\ current_sinks' = list_sinks("sinks" \in fs)
         /\ poll_failed' = fs
         /\ failures' = failures + Cardinality(fs)
    /\ poll_pc' = "list_sources"
    /\ failed' = {}
    /\ tick' = [tick EXCEPT !.now_sinks = m_sinks]
    /\ UNCHANGED <<mixerVars, ctlVars, previous_sinks, previous_sources, guiVars, pairVars, btVars, slog, watch>>
    /\ UNCHANGED extVars

\* line 913
PollChanged(cur_sinks, cur_sources, prev_sinks, prev_sources) ==
    cur_sinks # prev_sinks \/ cur_sources # prev_sources

\* lines 915-916: the baseline after a tick
PollForgetsSources(changed, cur_sinks, cur_sources) ==
    IF changed THEN <<cur_sinks, previous_sources>>
    ELSE <<previous_sinks, previous_sources>>

PollNextBaseline(changed, cur_sinks, cur_sources) ==
    IF changed THEN <<cur_sinks, cur_sources>>
    ELSE <<previous_sinks, previous_sources>>

PollCompare ==
    /\ poll_pc = "list_sources"
    /\ \E fs \in Outcomes({"sources"}) :
         LET current_sources == list_sources("sources" \in fs)
             changed == PollChanged(current_sinks, current_sources,
                                    previous_sinks, previous_sources)
             base    == PollNextBaseline(changed, current_sinks, current_sources)
         IN  /\ changed => devq < MaxQueue
             /\ previous_sinks' = base[1]
             /\ previous_sources' = base[2]
             /\ devq' = IF changed THEN devq + 1 ELSE devq
             /\ failures' = failures + Cardinality(fs)
             /\ failed' = poll_failed \cup fs
             /\ tick' = [done |-> TRUE, sinks |-> current_sinks, sources |-> current_sources,
                         same_sinks |-> (current_sinks = tick.sinks),
                         same_sources |-> (current_sources = tick.sources),
                         emitted |-> IF changed THEN 1 ELSE 0,
                         mixer_sinks |-> tick.now_sinks, mixer_sources |-> m_sources,
                         now_sinks |-> << >>,
                         genuine |-> (tick.now_sinks # tick.mixer_sinks
                                      \/ m_sources # tick.mixer_sources)]
             /\ watch' = IF changed /\ current_sinks = tick.sinks
                            /\ current_sources # tick.sources
                            /\ sinks = current_sinks /\ poll_failed \cup fs = {}
                         THEN [on |-> TRUE, held |-> sinks]
                         ELSE watch
    /\ poll_pc' = "sleep"
    /\ poll_failed' = {}
    /\ UNCHANGED <<mixerVars, ctlVars, current_sinks, gui_pc, gui_call, refresh_timers,
                   pairVars, btVars, slog>>
    /\ UNCHANGED extVars

(***************************************************************************)
(* The poller and the store: VolumeController.__init__ has listed the      *)
(* devices (lines 260-263) and started the polling thread (line 275).      *)
(***************************************************************************)
SinkB   == MixerSinkName(AddrB, A2dp)
SourceB == MixerSourceName(AddrB)

InitMixer ==
    /\ m_sinks = <<AlsaSink>>
    /\ m_sources = <<AlsaSource>>
    /\ m_cards = <<AlsaCard>>
    /\ m_default_sink = AlsaSink
    /\ m_default_source = AlsaSource
    /\ env_steps = 0
    /\ failures = 0

InitController ==
    /\ sinks = m_sinks
    /\ sources = m_sources
    /\ default_sink = m_default_sink
    /\ default_source = m_default_source

\* osd.py lines 265-280: no key is held when the reader starts, nothing has been
\* seen yet and alt_pressed is False.  The clock has run for longer than
\* MIN_INTERVAL.
InitKeyReader ==
    /\ kbd_held = {}
    /\ kbd_clock = MinInterval
    /\ alt_pressed = FALSE
    /\ last_event_times = [k \in {} |-> 0]
    /\ osd_emitted = "none"

\* albix.py lines 146-152
InitPlayer ==
    /\ playlist = << >>
    /\ current_song_index = -1
    /\ shuffle_mode = FALSE

\* Nothing is being unpaired and no volume has been asked for; every sink is
\* at 100%; initUI has filled the two selectors (lines 392, 406).  main() has
\* registered the agent, started the GLib loop's thread and is in app.exec_();
\* __init__ has added the PropertiesChanged receiver.
InitWindow ==
    /\ m_volume = [s \in SinkNames |-> VolumeNorm]
    /\ vol = [pc |-> "idle", sink |-> Empty, req |-> 0, got |-> 0, ok |-> TRUE]
    /\ unpair_worker = [pc |-> "none", addr |-> Empty, uid |-> 0]
    /\ unpair_results = << >>
    /\ unpair_log = << >>
    /\ main_pc = "exec"
    /\ agent_registered = TRUE
    /\ receiver_added = TRUE
    /\ glib_loop = "running"
    /\ device_selector = SelectedEntry(m_sinks, m_default_sink)
    /\ input_selector = SelectedEntry(m_sources, m_default_source)
    /\ volume_call = NoVolumeCall
    /\ InitKeyReader
    /\ InitPlayer

\* No sink is muted when the program starts.
InitExt ==
    /\ InitWindow
    /\ m_mute = [s \in SinkNames |-> FALSE]
    /\ is_muted = FALSE

InitPairIdle ==
    /\ profile_timers = {}
    /\ session_timers = {}
    /\ buttons_enabled = TRUE
    /\ pair_worker = [pc |-> "none", addr |-> Empty, sid |-> 0]
    /\ pair_results = << >>
    /\ slog = << >>

InitPoll ==
    /\ InitMixer
    /\ InitController
    /\ poll_pc = "start"
    /\ previous_sinks = << >>
    /\ previous_sources = << >>
    /\ current_sinks = << >>
    /\ poll_failed = {}
    /\ gui_pc = "idle"
    /\ gui_call = NoCall
    /\ devq = 0
    /\ refresh_timers = 0
    /\ tick = [done |-> FALSE, sinks |-> << >>, sources |-> << >>,
               same_sinks |-> FALSE, same_sources |-> FALSE, emitted |-> 0,
               mixer_sinks |-> << >>, mixer_sources |-> << >>, now_sinks |-> << >>,
               genuine |-> FALSE]
    /\ failed = {}
    /\ watch = [on |-> FALSE, held |-> << >>]
    /\ InitPairIdle
    /\ InitExt
    /\ bt_tree = {} /\ bt_paired = {} /\ bt_connected = {}

PollSinkNames   == {AlsaSink, SinkB}
PollSourceNames == {AlsaSource, SourceB}

MixerListsChange ==
    \/ \E n \in PollSinkNames : MixerSinkAppears(n)
    \/ \E n \in PollSinkNames : MixerSinkDisappears(n)
    \/ \E n \in PollSourceNames : MixerSourceAppears(n)
    \/ \E n \in PollSourceNames : MixerSourceDisappears(n)

NextPoll ==
    \/ MixerListsChange
    \/ PollBaseline
    \/ PollListSinks
    \/ PollCompare
    \/ HandleDevicesUpdated
    \/ RefreshButton
    \/ RefreshDefaults

SpecPoll == InitPoll /\ [][NextPoll]_vars

\* The polling thread keeps running, the queued notification is delivered (the
\* Qt event queue is served in order) and a refresh that has started finishes.
SpecPollLive ==
    /\ InitPoll
    /\ [][NextPoll]_vars
    /\ WF_vars(PollBaseline)
    /\ WF_vars(PollListSinks)
    /\ WF_vars(PollCompare)
    /\ SF_vars(HandleDevicesUpdated)
    /\ WF_vars(RefreshDefaults)

(***************************************************************************)
(* Finding a Bluetooth device's card and endpoints by name                 *)
(***************************************************************************)
AddrFieldLen == 17
HexLowerUnderscore == {"0","1","2","3","4","5","6","7","8","9","a","b","c","d","e","f","_"}

\* re.match(prefix + r'([0-9a-f_]{17})', name), then group(1).replace('_', ':')
RegexAddress(name, prefix) ==
    LET n == Len(prefix)
    IN  IF /\ StartsWith(name, prefix)
           /\ Len(name) >= n + AddrFieldLen
           /\ \A i \in 1..AddrFieldLen : name[n + i] \in HexLowerUnderscore
        THEN StrReplace(SubSeq(name, n + 1, n + AddrFieldLen), "_", ":")
        ELSE Empty

\* "for x in list: if x.startswith(p): found = x" (no break: the last one wins)
RECURSIVE LastMatch(_, _, _)
LastMatch(list, prefix, found) ==
    IF list = << >> THEN found
    ELSE LastMatch(Tail(list), prefix,
                   IF StartsWith(Head(list), prefix) THEN Head(list) ELSE found)

\* "for x in list: if x.startswith(p): found = x; break"
RECURSIVE FirstMatch(_, _)
FirstMatch(list, prefix) ==
    IF list = << >> THEN Empty
    ELSE IF StartsWith(Head(list), prefix) THEN Head(list)
    ELSE FirstMatch(Tail(list), prefix)

get_recent_bluetooth_address(held_sinks, held_sources) ==
    LET latest_sink   == LastMatch(held_sinks, BluezSinkDot, Empty)
        latest_source == LastMatch(held_sources, BluezSourceDot, Empty)
    IN  IF latest_sink # Empty THEN RegexAddress(latest_sink, BluezSinkDot)
        ELSE IF latest_source # Empty THEN RegexAddress(latest_source, BluezSourceDot)
        ELSE Empty

get_card_for_device(address, fail) ==
    FirstMatch(IF fail THEN << >> ELSE m_cards, BluezCardDot \o PaAddress(address))

(***************************************************************************)
(* Pairing sessions.  A session is one request (the Pair button, a double  *)
(* click on a listed device, or one device of the start-up sweep); slog    *)
(* records the daemon and mixer operations done for it, in order.          *)
(***************************************************************************)
NewSession(a, path, ops) ==
    [addr |-> a, path |-> path, ops |-> ops, card |-> Empty, msgs |-> 0]

\* QMessageBox.warning(...): one more error message shown for the session
WithWarning(session) == [session EXCEPT !.msgs = @ + 1]

Logged(sid, ops) == slog' = [slog EXCEPT ![sid].ops = @ \o ops]

\* the sessions the user has asked for (the start-up sweep's are not counted)
Requests == Cardinality({i \in DOMAIN slog : slog[i].path # "sweep"})

CanAlwaysStartWorker == TRUE

\* lines 453-454: pair_device and unpair_device are the clicked slots of the Pair
\* and Unpair buttons, which both are disabled while a worker is out (682-683,
\* 830-831)
CanStartWorker == buttons_enabled

\* ---- PairWorker.pair, in its own QThread
PairButton(a) ==
    /\ gui_pc = "idle"
    /\ CanStartWorker
    /\ Requests < MaxRequests
    /\ buttons_enabled' = FALSE
    /\ pair_worker' = [pc |-> "locate", addr |-> a, sid |-> Len(slog) + 1]
    /\ slog' = Append(slog, NewSession(a, "pair", << >>))
    /\ failed' = {}
    /\ UNCHANGED <<mixerVars, failures, ctlVars, pollVars, guiVars, profile_timers,
                   session_timers, pair_results, btVars, tick, watch>>
    /\ UNCHANGED extVars

DeviceAlwaysFound(address) == TRUE

\* lines 1137-1142 (618-623): the loop over GetManagedObjects() that looks for a
\* Device1 object with this Address; device_path stays None when there is none
DeviceFound(address) == address \in bt_tree

\* self.pairingResult.emit(success, message): queued for pairing_finished
EmitPairingResult(success) ==
    pair_results' = Append(pair_results, [success |-> success, sid |-> pair_worker.sid])

\* lines 1131-1146.  GetManagedObjects() (line 1135) is called outside any try:
\* when it raises (the daemon is not on the bus, or does not reply) the
\* exception leaves pair() and the worker ends there.
PairLocate ==
    /\ pair_worker.pc = "locate"
    /\ \E raises \in {r \in BOOLEAN : r => failures < MaxFailures} :
         IF raises
         THEN /\ pair_worker' = [pair_worker EXCEPT !.pc = "raised"]
              /\ failures' = failures + 1
              /\ UNCHANGED <<pair_results, slog>>
         ELSE IF DeviceFound(pair_worker.addr)
         THEN /\ pair_worker' = [pair_worker EXCEPT !.pc = "pair"]
              /\ Logged(pair_worker.sid, <<"locate">>)
              /\ UNCHANGED <<pair_results, failures>>
         ELSE /\ pair_worker' = [pair_worker EXCEPT !.pc = "finished"]
              /\ EmitPairingResult(FALSE)
              /\ Logged(pair_worker.sid, <<"locate", "result_false">>)
              /\ UNCHANGED failures
    /\ failed' = {}
    /\ UNCHANGED <<mixerVars, ctlVars, pollVars, guiVars, profile_timers,
                   session_timers, buttons_enabled, btVars, tick, watch>>
    /\ UNCHANGED extVars

AlreadyExists == "org.bluez.Error.AlreadyExists"
AuthenticationFailed == "org.bluez.Error.AuthenticationFailed"

\* What the daemon answers to Pair(): a paired device is refused with AlreadyExists.
PairAnswers(a) == IF a \in bt_paired THEN {AlreadyExists} ELSE {"ok", AuthenticationFailed}

\* lines 1169-1180: what the handler of a failed Pair() does next
PairErrorAlwaysFails(error_name) == "fail"

PairAfterError(error_name) ==
    IF error_name = AlreadyExists THEN "connect_again" ELSE "fail"

PairPair ==
    /\ pair_worker.pc = "pair"
    /\ \E answer \in PairAnswers(pair_worker.addr) :
         IF answer = "ok"
         THEN /\ bt_paired' = bt_paired \cup {pair_worker.addr}
              /\ pair_worker' = [pair_worker EXCEPT !.pc = "connect"]
              /\ Logged(pair_worker.sid, <<"trusted", "pair_ok">>)
              /\ UNCHANGED pair_results
         ELSE IF PairAfterError(answer) = "connect_again"
         THEN /\ pair_worker' = [pair_worker EXCEPT !.pc = "connect_again"]
              /\ Logged(pair_worker.sid, <<"trusted", "pair_already_exists">>)
              /\ UNCHANGED <<bt_paired, pair_results>>
         ELSE /\ pair_worker' = [pair_worker EXCEPT !.pc = "finished"]
              /\ EmitPairingResult(FALSE)
              /\ Logged(pair_worker.sid,
                        <<"trusted",
                          IF answer = AlreadyExists THEN "pair_already_exists"
                          ELSE "pair_error",
                          "result_false">>)
              /\ UNCHANGED bt_paired
    /\ failed' = {}
    /\ UNCHANGED <<mixerVars, failures, ctlVars, pollVars, guiVars, profile_timers,
                   session_timers, buttons_enabled, bt_tree, bt_connected, tick, watch>>
    /\ UNCHANGED extVars

PairConnect ==
    /\ pair_worker.pc \in {"connect", "connect_again"}
    /\ \E ok \in BOOLEAN :
         /\ bt_connected' = IF ok THEN bt_connected \cup {pair_worker.addr} ELSE bt_connected
         /\ EmitPairingResult(ok)
         /\ Logged(pair_worker.sid,
                   IF ok THEN <<"connect_ok", "result_true">>
                   ELSE <<"connect_error", "result_false">>)
    /\ pair_worker' = [pair_worker EXCEPT !.pc = "finished"]
    /\ failed' = {}
    /\ UNCHANGED <<mixerVars, failures, ctlVars, pollVars, guiVars, profile_timers,
                   session_timers, buttons_enabled, bt_tree, bt_paired, tick, watch>>
    /\ UNCHANGED extVars

\* ---- pairing_finished, in the GUI thread
ProfileTimerAlways(success) == TRUE

\* lines 694-699: the profile timer is started for a successful result only
ProfileTimerOnResult(success) == success

HandlePairingResult ==
    /\ gui_pc = "idle"
    /\ pair_results # << >>
    /\ buttons_enabled' = TRUE
    /\ profile_timers' = IF ProfileTimerOnResult(Head(pair_results).success)
                         THEN profile_timers \cup {Head(pair_results).sid}
                         ELSE profile_timers
    /\ slog' = IF Head(pair_results).success THEN slog
               ELSE [slog EXCEPT ![Head(pair_results).sid] = WithWarning(@)]
    /\ pair_results' = Tail(pair_results)
    /\ pair_worker' = [pc |-> "none", addr |-> Empty, sid |-> 0]
    /\ failed' = {}
    /\ UNCHANGED <<mixerVars, failures, ctlVars, pollVars, guiVars, session_timers,
                   btVars, tick, watch>>
    /\ UNCHANGED extVars

\* ---- the profile switch and the endpoint assignment, in the GUI thread.
\* set_bluetooth_profile (lines 703-793, after the Pair button) and
\* set_device_as_default_sink_and_source (lines 973-1054, after a double click or
\* the start-up sweep) differ only in where the address comes from.

CardAlwaysFound(card_name) == TRUE

\* lines 977 (712): "if not card_name"
CardFound(card_name) == card_name # Empty

\* get_card_for_device, set_card_profile(card, 'a2dp_sink'), then time.sleep(2)
SwitchProfile(log, address, sid, kind, fail_cards) ==
    LET card_name == get_card_for_device(address, fail_cards)
    IN  IF ~CardFound(card_name)
        THEN /\ slog' = [log EXCEPT ![sid] = WithWarning([@ EXCEPT !.ops = @ \o <<"failed">>])]
             /\ gui_pc' = "idle"
             /\ gui_call' = NoCall
        ELSE /\ slog' = [log EXCEPT ![sid].ops = @ \o <<"profile">>, ![sid].card = card_name]
             /\ gui_pc' = "settle"
             /\ gui_call' = [kind |-> kind, addr |-> address, sid |-> sid,
                             sink |-> Empty, source |-> Empty]

set_bluetooth_profile(sid) ==
    /\ gui_pc = "idle"
    /\ sid \in profile_timers
    /\ profile_timers' = profile_timers \ {sid}
    /\ \E fs \in Outcomes({"sinks", "sources", "cards"}) :
         LET pa_address == get_recent_bluetooth_address(list_sinks("sinks" \in fs),
                                                        list_sources("sources" \in fs))
         IN  /\ sinks' = list_sinks("sinks" \in fs)
             /\ sources' = list_sources("sources" \in fs)
             /\ Fails(fs)
             /\ IF pa_address = Empty
                THEN UNCHANGED <<slog, gui_pc, gui_call>>
                ELSE SwitchProfile(slog, pa_address, sid, "profile", "cards" \in fs)
    /\ watch' = [watch EXCEPT !.on = FALSE]
    /\ UNCHANGED <<mixerVars, default_sink, default_source, pollVars, devq, refresh_timers,
                   session_timers, buttons_enabled, pair_worker, pair_results, btVars, tick>>
    /\ UNCHANGED extVars

set_device_as_default_sink_and_source(t) ==
    /\ gui_pc = "idle"
    /\ t \in session_timers
    /\ session_timers' = session_timers \ {t}
    /\ \E fs \in Outcomes({"cards"}) :
         /\ SwitchProfile(slog, t.addr, t.sid, "session", "cards" \in fs)
         /\ Fails(fs)
    /\ UNCHANGED <<mixerVars, ctlVars, pollVars, devq, refresh_timers, profile_timers,
                   buttons_enabled, pair_worker, pair_results, btVars, tick, watch>>
    /\ UNCHANGED extVars

\* lines 991-1037 (730-776): list, match by prefix, make the matches the defaults
MatchEndpoints ==
    /\ gui_pc = "settle"
    /\ \E fs \in Outcomes({"sinks", "sources", "set_default_sink", "set_default_source"}) :
         LET pa_address  == PaAddress(gui_call.addr)
             sink_name   == FirstMatch(list_sinks("sinks" \in fs), BluezSinkDot \o pa_address)
             source_name == FirstMatch(list_sources("sources" \in fs),
                                       BluezSourceDot \o pa_address)
         IN  /\ sinks' = list_sinks("sinks" \in fs)
             /\ sources' = list_sources("sources" \in fs)
             /\ sink_name = Empty => "set_default_sink" \notin fs
             /\ source_name = Empty => "set_default_source" \notin fs
             /\ m_default_sink' = IF sink_name # Empty /\ "set_default_sink" \notin fs
                                  THEN sink_name ELSE m_default_sink
             /\ default_sink' = IF sink_name # Empty THEN sink_name ELSE default_sink
             /\ m_default_source' = IF source_name # Empty /\ "set_default_source" \notin fs
                                    THEN source_name ELSE m_default_source
             /\ default_source' = IF source_name # Empty THEN source_name ELSE default_source
             /\ gui_call' = [gui_call EXCEPT !.sink = sink_name, !.source = source_name]
             /\ IF sink_name # Empty
                THEN \E read \in {SinkVolumeRead(sink_name, FALSE)} :
                       LET volume == ClampVolume(read)
                       IN  /\ m_volume' = VolumeSet(sink_name, volume, FALSE)
                           /\ m_mute' = MuteCleared(sink_name, volume, FALSE)
                           /\ is_muted' = get_sink_mute_cmd(SinkMuteOutput(sink_name,
                                               MuteCleared(sink_name, volume, FALSE), FALSE))
                           /\ volume_call' = [value |-> volume, sink |-> sink_name,
                                              turn |-> 1 - volume_call.turn]
                ELSE UNCHANGED <<m_volume, muteVars>>
             /\ Fails(fs)
    /\ Logged(gui_call.sid, <<"match">>)
    /\ gui_pc' = "refresh_lists"
    /\ watch' = [watch EXCEPT !.on = FALSE]
    /\ UNCHANGED <<m_sinks, m_sources, m_cards, env_steps, pollVars, devq, refresh_timers,
                   pairVars, btVars, tick>>
    /\ UNCHANGED <<vol, unpairVars, mainVars, selVars, toolVars>>

\* lines 1039-1040 (778-779): refresh_audio_devices, first half
SessionRefreshLists ==
    /\ gui_pc = "refresh_lists"
    /\ RefreshLists
    /\ UNCHANGED <<mixerVars, pollVars, gui_call, devq, refresh_timers, pairVars, btVars,
                   slog, tick>>

\* refresh_audio_devices, second half, then the dialog and the 3 s refresh timer
SessionFinish ==
    /\ gui_pc = "refresh_defaults"
    /\ gui_call.kind \in {"profile", "session"}
    /\ \E fs \in Outcomes({"default_sink", "default_source"}) :
         /\ \E name \in {get_default_sink("default_sink" \in fs, FALSE)} :
              /\ default_sink' = name
              /\ BarFollows(name)
         /\ default_source' = get_default_source("default_source" \in fs, FALSE)
         /\ Fails(fs)
    /\ refresh_timers' = refresh_timers + 1
    /\ Logged(gui_call.sid, <<"done">>)
    /\ gui_pc' = "idle"
    /\ gui_call' = NoCall
    /\ UNCHANGED <<mixerVars, sinks, sources, pollVars, devq, pairVars, btVars, tick, watch>>
    /\ UNCHANGED <<vol, unpairVars, mainVars, selVars, toolVars>>

\* ---- a double click on a listed device: set_bluetooth_device_as_default,
\* connect_and_set_bluetooth_device
DoubleClick(a) ==
    /\ gui_pc = "idle"
    /\ Requests < MaxRequests
    /\ LET sid == Len(slog) + 1
       IN  IF ~DeviceFound(a)
           THEN /\ slog' = Append(slog, WithWarning(NewSession(a, "click",
                                                                <<"locate", "failed">>)))
                /\ failed' = {}
                /\ UNCHANGED <<failures, gui_pc, gui_call, session_timers, bt_connected>>
           ELSE IF a \notin bt_connected
           THEN /\ \E ok \in BOOLEAN :
                     IF ok
                     THEN /\ bt_connected' = bt_connected \cup {a}
                          /\ session_timers' = session_timers \cup {[addr |-> a, sid |-> sid]}
                          /\ slog' = Append(slog, NewSession(a, "click",
                                                             <<"locate", "connect_ok">>))
                     ELSE /\ slog' = Append(slog, WithWarning(NewSession(a, "click",
                                               <<"locate", "connect_error", "failed">>)))
                          /\ UNCHANGED <<bt_connected, session_timers>>
                /\ failed' = {}
                /\ UNCHANGED <<failures, gui_pc, gui_call>>
           ELSE /\ \E fs \in Outcomes({"cards"}) :
                     /\ SwitchProfile(Append(slog, NewSession(a, "click", <<"locate">>)),
                                      a, sid, "session", "cards" \in fs)
                     /\ Fails(fs)
                /\ UNCHANGED <<session_timers, bt_connected>>
    /\ UNCHANGED <<mixerVars, ctlVars, pollVars, devq, refresh_timers, profile_timers,
                   buttons_enabled, pair_worker, pair_results, bt_tree, bt_paired, tick, watch>>
    /\ UNCHANGED extVars

\* ---- connect_paired_bluetooth_devices, once, at the end of __init__
AddrOrder == <<AddrA, AddrB>>

RECURSIVE SweepSessions(_, _, _)
SweepSessions(todo, ok, n) ==
    IF todo = << >> THEN [log |-> << >>, timers |-> {}]
    ELSE LET rest == SweepSessions(Tail(todo), ok, n + 1)
             a    == Head(todo)
         IN  IF a \in ok
             THEN [log |-> <<NewSession(a, "sweep", <<"locate", "connect_ok">>)>> \o rest.log,
                   timers |-> {[addr |-> a, sid |-> n]} \cup rest.timers]
             ELSE [log |-> <<NewSession(a, "sweep", <<"locate", "connect_error", "failed">>)>>
                           \o rest.log,
                   timers |-> rest.timers]

connect_paired_bluetooth_devices ==
    /\ gui_pc = "startup"
    /\ LET todo == SelectSeq(AddrOrder, LAMBDA a : a \in bt_tree /\ a \in bt_paired
                                                   /\ a \notin bt_connected)
       IN  \E ok \in SUBSET {todo[i] : i \in 1..Len(todo)} :
             LET r == SweepSessions(todo, ok, Len(slog) + 1)
             IN  /\ slog' = slog \o r.log
                 /\ session_timers' = session_timers \cup r.timers
                 /\ bt_connected' = bt_connected \cup ok
    /\ refresh_timers' = refresh_timers + 1
    /\ gui_pc' = "idle"
    /\ failed' = {}
    /\ UNCHANGED <<mixerVars, failures, ctlVars, pollVars, gui_call, devq, profile_timers,
                   buttons_enabled, pair_worker, pair_results, bt_tree, bt_paired, tick, watch>>
    /\ UNCHANGED extVars

\* ---- a pending singleShot(..., refresh_all_devices) fires
RefreshTimerFires ==
    /\ gui_pc = "idle"
    /\ refresh_timers > 0
    /\ refresh_timers' = refresh_timers - 1
    /\ gui_call' = [NoCall EXCEPT !.kind = "refresh_all"]
    /\ RefreshLists
    /\ UNCHANGED <<mixerVars, pollVars, devq, pairVars, btVars, slog, tick>>
    /\ UNCHANGED extVars

(***************************************************************************)
(* The pairing coordinator: the state when __init__ reaches line 283, for  *)
(* a few configurations of the daemon's object tree and of the mixer.      *)
(***************************************************************************)
SinkA    == MixerSinkName(AddrA, A2dp)
SinkAHsp == MixerSinkName(AddrA, Hsp)
SourceA  == MixerSourceName(AddrA)
CardA    == MixerCardName(AddrA)
CardB    == MixerCardName(AddrB)

StartConfigurations ==
    { \* both devices paired, neither connected, nothing of them in the mixer yet
      [tree |-> {AddrA, AddrB}, paired |-> {AddrA, AddrB}, connected |-> {},
       s |-> <<AlsaSink>>, so |-> <<AlsaSource>>, c |-> <<AlsaCard, CardA>>],
      \* B in use, A discovered and not yet paired
      [tree |-> {AddrA, AddrB}, paired |-> {AddrB}, connected |-> {AddrB},
       s |-> <<AlsaSink, SinkB>>, so |-> <<AlsaSource, SourceB>>,
       c |-> <<AlsaCard, CardB>>],
      \* A paired and connected, its card known, its endpoints not yet exposed
      [tree |-> {AddrA}, paired |-> {AddrA}, connected |-> {AddrA},
       s |-> <<AlsaSink>>, so |-> <<AlsaSource>>, c |-> <<AlsaCard, CardA>>] }

InitPair ==
    /\ \E cfg \in StartConfigurations :
         /\ bt_tree = cfg.tree /\ bt_paired = cfg.paired /\ bt_connected = cfg.connected
         /\ m_sinks = cfg.s /\ m_sources = cfg.so /\ m_cards = cfg.c
         /\ m_default_sink = cfg.s[1] /\ m_default_source = cfg.so[1]
    /\ env_steps = 0
    /\ failures = 0
    /\ InitController
    /\ InitPairIdle
    /\ InitExt
    /\ poll_pc = "off"
    /\ previous_sinks = << >>
    /\ previous_sources = << >>
    /\ current_sinks = << >>
    /\ poll_failed = {}
    /\ gui_pc = "startup"
    /\ gui_call = NoCall
    /\ devq = 0
    /\ refresh_timers = 0
    /\ tick = [done |-> FALSE, sinks |-> << >>, sources |-> << >>,
               same_sinks |-> FALSE, same_sources |-> FALSE, emitted |-> 0,
               mixer_sinks |-> << >>, mixer_sources |-> << >>, now_sinks |-> << >>,
               genuine |-> FALSE]
    /\ failed = {}
    /\ watch = [on |-> FALSE, held |-> << >>]

PairSinkNames   == {SinkA, SinkAHsp, SinkB}
PairSourceNames == {SourceA}

\* Endpoints of a connected device show up in the mixer at some point.
MixerChangesWhilePairing ==
    \/ \E n \in PairSinkNames : MixerSinkAppears(n)
    \/ \E n \in PairSourceNames : MixerSourceAppears(n)

\* The steps of the sessions themselves.
NextSession ==
    \/ connect_paired_bluetooth_devices
    \/ \E a \in Addr : PairButton(a)
    \/ PairLocate
    \/ PairPair
    \/ PairConnect
    \/ HandlePairingResult
    \/ \E sid \in profile_timers : set_bluetooth_profile(sid)
    \/ \E a \in Addr : DoubleClick(a)
    \/ \E t \in session_timers : set_device_as_default_sink_and_source(t)
    \/ MatchEndpoints
    \/ SessionRefreshLists
    \/ SessionFinish

\* The sessions alone: the mixer's lists stay as they are and the deferred
\* refreshes are still pending.
SpecSession == InitPair /\ [][NextSession]_vars

\* The sessions, the mixer changing under them, and the deferred refreshes.
NextPair ==
    \/ NextSession
    \/ MixerChangesWhilePairing
    \/ RefreshTimerFires
    \/ RefreshDefaults

SpecPair == InitPair /\ [][NextPair]_vars

\* ---- one set/get exchange with the mixer (SpecVolume)
set_sink_volume_cmd(sink_name, volume) ==
    /\ vol.pc = "idle"
    /\ \E fs \in Outcomes({"set_sink_volume"}) :
         /\ m_volume' = IF fs = {}
                        THEN [m_volume EXCEPT ![sink_name] = MixerStores(VolumeArgument(volume))]
                        ELSE m_volume
         /\ vol' = [pc |-> "set", sink |-> sink_name, req |-> volume, got |-> 0,
                    ok |-> (fs = {})]
         /\ Fails(fs)
    /\ UNCHANGED <<mixerVars, ctlVars, pollVars, guiVars, pairVars, btVars, slog, tick, watch,
                   unpairVars, mainVars, selVars, muteVars, toolVars>>

get_sink_volume_cmd ==
    /\ vol.pc = "set"
    /\ \E fs \in Outcomes({"get_sink_volume"}) :
         /\ vol' = [vol EXCEPT !.pc = "got",
                               !.got = SearchFrontLeftPercent(IF fs = {} THEN MixerPrints(ChannelMap(vol.sink),
                                                                                 m_volume[vol.sink])
                                                              ELSE Empty),
                               !.ok = vol.ok /\ fs = {}]
         /\ Fails(fs)
    /\ UNCHANGED <<mixerVars, ctlVars, pollVars, guiVars, pairVars, btVars, slog, tick, watch,
                   m_volume, unpairVars, mainVars, selVars, muteVars, toolVars>>

\* The mixer lists a stereo sink and the headset sink of a connected device.
InitVolume ==
    /\ m_sinks = <<AlsaSink, SinkAHsp>>
    /\ m_sources = <<AlsaSource>>
    /\ m_cards = <<AlsaCard, CardA>>
    /\ m_default_sink = AlsaSink
    /\ m_default_source = AlsaSource
    /\ env_steps = 0
    /\ failures = 0
    /\ InitController
    /\ InitPairIdle
    /\ InitExt
    /\ poll_pc = "off"
    /\ previous_sinks = << >>
    /\ previous_sources = << >>
    /\ current_sinks = << >>
    /\ poll_failed = {}
    /\ gui_pc = "idle"
    /\ gui_call = NoCall
    /\ devq = 0
    /\ refresh_timers = 0
    /\ tick = [done |-> FALSE, sinks |-> << >>, sources |-> << >>,
               same_sinks |-> FALSE, same_sources |-> FALSE, emitted |-> 0,
               mixer_sinks |-> << >>, mixer_sources |-> << >>, now_sinks |-> << >>,
               genuine |-> FALSE]
    /\ failed = {}
    /\ watch = [on |-> FALSE, held |-> << >>]
    /\ bt_tree = {AddrA} /\ bt_paired = {AddrA} /\ bt_connected = {AddrA}

NextVolume ==
    \/ \E i \in DOMAIN m_sinks : \E v \in 0..MaxVolume : set_sink_volume_cmd(m_sinks[i], v)
    \/ get_sink_volume_cmd

SpecVolume == InitVolume /\ [][NextVolume]_vars

(***************************************************************************)
(* The daemon's PropertiesChanged signals (start_dbus_signal_listener):    *)
(* device_property_changed runs in the GUI thread for each signal and, for *)
(* a change of Connected, starts a 3 s single-shot refresh_all_devices.    *)
(***************************************************************************)
device_property_changed(changed) ==
    /\ gui_pc = "idle"
    /\ IF "Connected" \in changed
       THEN /\ refresh_timers < MaxSignals
            /\ refresh_timers' = refresh_timers + 1
       ELSE UNCHANGED refresh_timers
    /\ failed' = {}
    /\ UNCHANGED <<mixerVars, failures, ctlVars, pollVars, gui_pc, gui_call, devq, pairVars,
                   btVars, slog, tick, watch, extVars>>

ChangedProperties == {{"Connected"}, {"RSSI"}, {"Connected", "ServicesResolved"}}

NextSignal ==
    \/ \E changed \in ChangedProperties : device_property_changed(changed)
    \/ RefreshTimerFires
    \/ RefreshDefaults
    \/ MixerListsChange

SpecSignal == InitPoll /\ [][NextSignal]_vars

(***************************************************************************)
(* Unpairing: unpair_device starts UnpairWorker.unpair in its own QThread, *)
(* unpairing_finished handles its unpairingResult in the GUI thread.       *)
(* unpair_log records, per request, whether RemoveDevice succeeded, the    *)
(* result that was handled, the bluetooth_devices_updated emitted for it   *)
(* and the warnings shown.                                                 *)
(***************************************************************************)
UnpairButton(a) ==
    /\ gui_pc = "idle"
    /\ CanStartWorker
    /\ Len(unpair_log) < MaxUnpairs
    /\ buttons_enabled' = FALSE
    /\ unpair_worker' = [pc |-> "locate", addr |-> a, uid |-> Len(unpair_log) + 1]
    /\ unpair_log' = Append(unpair_log, [addr |-> a, removed |-> FALSE, result |-> "none",
                                         refreshes |-> 0, msgs |-> 0])
    /\ failed' = {}
    /\ UNCHANGED <<mixerVars, failures, ctlVars, pollVars, guiVars, profile_timers,
                   session_timers, pair_worker, pair_results, btVars, slog, tick, watch,
                   volVars, mainVars, selVars, muteVars, toolVars, unpair_results>>

EmitUnpairingResult(success) ==
    unpair_results' = Append(unpair_results, [success |-> success, uid |-> unpair_worker.uid])

\* lines 1198-1209: one loop finds adapter_path and device_path and stops at the
\* device, so the adapter is found only when the daemon lists it before the
\* device; the order is the daemon's
UnpairLocate ==
    /\ unpair_worker.pc = "locate"
    /\ \E adapter_listed_first \in BOOLEAN :
         IF DeviceFound(unpair_worker.addr) /\ adapter_listed_first
         THEN /\ unpair_worker' = [unpair_worker EXCEPT !.pc = "remove"]
              /\ UNCHANGED unpair_results
         ELSE /\ unpair_worker' = [unpair_worker EXCEPT !.pc = "finished"]
              /\ EmitUnpairingResult(FALSE)
    /\ failed' = {}
    /\ UNCHANGED <<mixerVars, failures, ctlVars, pollVars, guiVars, pairVars, btVars, slog,
                   tick, watch, volVars, mainVars, selVars, muteVars, toolVars, unpair_log>>

\* lines 1214-1220: adapter.RemoveDevice(device_path)
UnpairRemove ==
    /\ unpair_worker.pc = "remove"
    /\ \E ok \in BOOLEAN :
         /\ bt_tree' = IF ok THEN bt_tree \ {unpair_worker.addr} ELSE bt_tree
         /\ bt_paired' = IF ok THEN bt_paired \ {unpair_worker.addr} ELSE bt_paired
         /\ bt_connected' = IF ok THEN bt_connected \ {unpair_worker.addr} ELSE bt_connected
         /\ unpair_log' = [unpair_log EXCEPT ![unpair_worker.uid].removed = ok]
         /\ EmitUnpairingResult(ok)
    /\ unpair_worker' = [unpair_worker EXCEPT !.pc = "finished"]
    /\ failed' = {}
    /\ UNCHANGED <<mixerVars, failures, ctlVars, pollVars, guiVars, pairVars, slog,
                   tick, watch, volVars, mainVars, selVars, muteVars, toolVars>>

ListRefreshAlways(success) == TRUE

\* lines 842-847: bluetooth_devices_updated is emitted in the success branch only
ListRefreshOnResult(success) == success

\* ---- unpairing_finished, in the GUI thread
HandleUnpairingResult ==
    /\ gui_pc = "idle"
    /\ unpair_results # << >>
    /\ buttons_enabled' = TRUE
    /\ LET r == Head(unpair_results)
       IN  unpair_log' =
               [unpair_log EXCEPT ![r.uid] =
                   [@ EXCEPT !.result = IF r.success THEN "success" ELSE "failure",
                             !.refreshes = IF ListRefreshOnResult(r.success) THEN @ + 1 ELSE @,
                             !.msgs = IF r.success THEN @ ELSE @ + 1]]
    /\ unpair_results' = Tail(unpair_results)
    /\ unpair_worker' = [pc |-> "none", addr |-> Empty, uid |-> 0]
    /\ failed' = {}
    /\ UNCHANGED <<mixerVars, failures, ctlVars, pollVars, guiVars, profile_timers,
                   session_timers, pair_worker, pair_results, btVars, slog, tick, watch,
                   volVars, mainVars, selVars, muteVars, toolVars>>

NextUnpair ==
    \/ connect_paired_bluetooth_devices
    \/ \E a \in Addr : UnpairButton(a)
    \/ UnpairLocate
    \/ UnpairRemove
    \/ HandleUnpairingResult

SpecUnpair == InitPair /\ [][NextUnpair]_vars

\* The two buttons and their workers together.
NextWorkers ==
    \/ NextUnpair
    \/ \E a \in Addr : PairButton(a)
    \/ PairLocate
    \/ PairPair
    \/ PairConnect
    \/ HandlePairingResult

SpecWorkers == InitPair /\ [][NextWorkers]_vars

(***************************************************************************)
(* Leaving the application: app.exec_() returns when the last window is    *)
(* closed (line 1304), then main() unregisters the agent, quits the GLib   *)
(* loop and calls sys.exit.  The polling thread and the GLib thread are    *)
(* daemon threads: they run until the interpreter ends.                    *)
(***************************************************************************)
AppExecReturns ==
    /\ main_pc = "exec"
    /\ gui_pc = "idle"
    /\ main_pc' = "unregister"
    /\ gui_pc' = "closed"
    /\ failed' = {}
    /\ UNCHANGED <<mixerVars, failures, ctlVars, pollVars, gui_call, devq, refresh_timers,
                   pairVars, btVars, slog, tick, watch, volVars, unpairVars, selVars, muteVars, toolVars,
                   agent_registered, receiver_added, glib_loop>>

\* lines 1306-1311: UnregisterAgent; a DBusException is logged and main goes on
MainUnregisterAgent ==
    /\ main_pc = "unregister"
    /\ \E ok \in BOOLEAN : agent_registered' = IF ok THEN FALSE ELSE agent_registered
    /\ main_pc' = "quit_loop"
    /\ failed' = {}
    /\ UNCHANGED <<mixerVars, failures, ctlVars, pollVars, guiVars, pairVars, btVars, slog,
                   tick, watch, volVars, unpairVars, selVars, muteVars, toolVars, receiver_added, glib_loop>>

\* lines 1313-1315: gobject_loop.quit()
MainQuitsLoop ==
    /\ main_pc = "quit_loop"
    /\ glib_loop' = "stopped"
    /\ main_pc' = "exit"
    /\ failed' = {}
    /\ UNCHANGED <<mixerVars, failures, ctlVars, pollVars, guiVars, pairVars, btVars, slog,
                   tick, watch, volVars, unpairVars, selVars, muteVars, toolVars, agent_registered, receiver_added>>

\* line 1316: sys.exit(ret)
MainExits ==
    /\ main_pc = "exit"
    /\ main_pc' = "exited"
    /\ failed' = {}
    /\ UNCHANGED <<mixerVars, failures, ctlVars, pollVars, guiVars, pairVars, btVars, slog,
                   tick, watch, volVars, unpairVars, selVars, muteVars, toolVars, agent_registered, receiver_added,
                   glib_loop>>

\* The polling thread runs as long as the process does.
ProcessRuns == main_pc # "exited"

NextMain ==
    \/ MixerListsChange
    \/ ProcessRuns /\ PollBaseline
    \/ ProcessRuns /\ PollListSinks
    \/ ProcessRuns /\ PollCompare
    \/ HandleDevicesUpdated
    \/ RefreshButton
    \/ RefreshDefaults
    \/ AppExecReturns
    \/ MainUnregisterAgent
    \/ MainQuitsLoop
    \/ MainExits

SpecMain == InitPoll /\ [][NextMain]_vars

(***************************************************************************)
(* The controller's window over a mixer with two outputs and two inputs:   *)
(* the user refreshes, moves the output bar and picks an output, and       *)
(* another client changes the mixer's defaults.  Sinks may have been muted *)
(* before the program started; __init__ reads the default sink's switch    *)
(* into is_muted (line 267).                                               *)
(***************************************************************************)
InitDesk ==
    /\ m_sinks = <<AlsaSink, SinkB>>
    /\ m_sources = <<AlsaSource, SourceB>>
    /\ m_cards = <<AlsaCard, MixerCardName(AddrB)>>
    /\ m_default_sink = AlsaSink
    /\ m_default_source = AlsaSource
    /\ env_steps = 0
    /\ failures = 0
    /\ InitController
    /\ InitPairIdle
    /\ InitWindow
    /\ m_mute \in {f \in [SinkNames -> BOOLEAN] : \A n \in SinkNames : f[n] => InSeq(n, m_sinks)}
    /\ is_muted = get_sink_mute_cmd(SinkMuteOutput(m_default_sink, m_mute, FALSE))
    /\ poll_pc = "off"
    /\ previous_sinks = << >>
    /\ previous_sources = << >>
    /\ current_sinks = << >>
    /\ poll_failed = {}
    /\ gui_pc = "idle"
    /\ gui_call = NoCall
    /\ devq = 0
    /\ refresh_timers = 0
    /\ tick = [done |-> FALSE, sinks |-> << >>, sources |-> << >>,
               same_sinks |-> FALSE, same_sources |-> FALSE, emitted |-> 0,
               mixer_sinks |-> << >>, mixer_sources |-> << >>, now_sinks |-> << >>,
               genuine |-> FALSE]
    /\ failed = {}
    /\ watch = [on |-> FALSE, held |-> << >>]
    /\ bt_tree = {AddrB} /\ bt_paired = {AddrB} /\ bt_connected = {AddrB}

MixerDefaultsChange ==
    \/ \E n \in PollSinkNames : MixerDefaultSinkChanges(n)
    \/ \E n \in PollSourceNames : MixerDefaultSourceChanges(n)

\* VolumeBar.adjustVolume (lines 229-232): a press or a drag on the output bar
BarPositions == {0, 42, MaxVolume}

adjustVolume(new_volume) ==
    /\ gui_pc = "idle"
    /\ \E fs \in Outcomes({"set_sink_volume"}
                         \cup (IF is_muted /\ new_volume > 0 THEN {"set_sink_mute"} ELSE {})) :
         /\ set_volume(default_sink, ClampVolume(new_volume), fs)
         /\ Fails(fs)
    /\ UNCHANGED <<mixerVars, ctlVars, pollVars, guiVars, pairVars, btVars, slog, tick, watch,
                   vol, unpairVars, mainVars, selVars, toolVars>>

\* change_sink (lines 574-590): the user picks another entry of the output
\* selector.  The bar is set, and so set_volume runs, before is_muted is read.
change_sink(name) ==
    /\ gui_pc = "idle"
    /\ InSeq(name, sinks)
    /\ name # device_selector
    /\ device_selector' = name
    /\ default_sink' = name
    /\ \E fs \in Outcomes({"set_default_sink", "get_sink_volume", "set_sink_volume",
                           "set_sink_mute", "get_sink_mute"}) :
       \E read \in {SinkVolumeRead(name, "get_sink_volume" \in fs)} :
         LET volume == ClampVolume(read)
             mutes  == MuteCleared(name, volume, "set_sink_mute" \in fs)
         IN  /\ "set_sink_mute" \in fs => is_muted /\ volume > 0
             /\ m_default_sink' = IF KnownSink(name) /\ "set_default_sink" \notin fs
                                  THEN name ELSE m_default_sink
             /\ m_volume' = VolumeSet(name, volume, "set_sink_volume" \in fs)
             /\ m_mute' = mutes
             /\ is_muted' = get_sink_mute_cmd(SinkMuteOutput(name, mutes,
                                                             "get_sink_mute" \in fs))
             /\ volume_call' = [value |-> volume, sink |-> name,
                                turn |-> 1 - volume_call.turn]
             /\ Fails(fs)
    /\ UNCHANGED <<m_sinks, m_sources, m_default_source, m_cards, env_steps, sinks, sources,
                   default_source, pollVars, guiVars, pairVars, btVars, slog, tick, watch,
                   vol, unpairVars, mainVars, input_selector, toolVars>>

NextDesk ==
    \/ MixerDefaultsChange
    \/ RefreshButton
    \/ RefreshDefaults
    \/ \E v \in BarPositions : adjustVolume(v)
    \/ \E n \in PollSinkNames : change_sink(n)

SpecDesk == InitDesk /\ [][NextDesk]_vars

(***************************************************************************)
(* osd.py, read_keyboard_events (lines 252-322): the thread that reads the *)
(* keyboard's events.  The keyboard reports a key going down, being held   *)
(* (auto-repeat) and going up; the reader handles each event as it comes.  *)
(***************************************************************************)
KEY_LEFTALT    == "KEY_LEFTALT"
KEY_RIGHTALT   == "KEY_RIGHTALT"
KEY_UP         == "KEY_UP"
KEY_DOWN       == "KEY_DOWN"
KEY_M          == "KEY_M"
KEY_VOLUMEUP   == "KEY_VOLUMEUP"
KEY_VOLUMEDOWN == "KEY_VOLUMEDOWN"
KEY_MUTE       == "KEY_MUTE"

AltKeys == {KEY_LEFTALT, KEY_RIGHTALT}

\* the keys pressed in the model
KeyboardKeys == {KEY_LEFTALT, KEY_RIGHTALT, KEY_UP, KEY_VOLUMEUP}

KeyStates == {"key_down", "key_hold", "key_up"}

\* line 287: last_event_times.get(key_event.scancode, 0)
LastTime(scancode) ==
    IF scancode \in DOMAIN last_event_times THEN last_event_times[scancode] ELSE 0

\* line 288
TooSoon(scancode) == kbd_clock - LastTime(scancode) < MinInterval

\* lines 303-318: what a key going down emits
EmittedOnKeyDown(scancode, alt) ==
    IF alt /\ scancode = KEY_UP THEN "increase"
    ELSE IF alt /\ scancode = KEY_DOWN THEN "decrease"
    ELSE IF alt /\ scancode = KEY_M THEN "mute"
    ELSE IF scancode = KEY_VOLUMEUP THEN "increase"
    ELSE IF scancode = KEY_VOLUMEDOWN THEN "decrease"
    ELSE IF scancode = KEY_MUTE THEN "mute"
    ELSE "none"

\* lines 300-301, 320-322
AltAfter(scancode, keystate) ==
    IF keystate = "key_down" /\ scancode \in AltKeys THEN TRUE
    ELSE IF keystate = "key_up" /\ scancode \in AltKeys THEN FALSE
    ELSE alt_pressed

\* One event of the keyboard and the loop body that handles it.
ReadKeyEvent(scancode, keystate) ==
    /\ keystate = "key_down" => scancode \notin kbd_held
    /\ keystate \in {"key_hold", "key_up"} => scancode \in kbd_held
    /\ kbd_held' = IF keystate = "key_down" THEN kbd_held \cup {scancode}
                   ELSE IF keystate = "key_up" THEN kbd_held \ {scancode}
                   ELSE kbd_held
    /\ IF TooSoon(scancode)
       THEN /\ osd_emitted' = "none"
            /\ UNCHANGED <<alt_pressed, last_event_times>>
       ELSE /\ last_event_times' = [k \in DOMAIN last_event_times \cup {scancode} |->
                                       IF k = scancode THEN kbd_clock ELSE last_event_times[k]]
            /\ alt_pressed' = AltAfter(scancode, keystate)
            /\ osd_emitted' = IF keystate = "key_down"
                              THEN EmittedOnKeyDown(scancode, AltAfter(scancode, keystate))
                              ELSE "none"
    /\ UNCHANGED kbd_clock
    /\ UNCHANGED <<bpVars, albixVars>>

\* time.monotonic() moves on between two events
ClockAdvances ==
    /\ kbd_clock < MaxClock
    /\ kbd_clock' = kbd_clock + 1
    /\ UNCHANGED <<kbd_held, alt_pressed, last_event_times, osd_emitted>>
    /\ UNCHANGED <<bpVars, albixVars>>

NextOsd ==
    \/ ClockAdvances
    \/ \E k \in KeyboardKeys, st \in KeyStates : ReadKeyEvent(k, st)

\* Nothing but the key reader runs.
SpecOsd == InitPoll /\ [][NextOsd]_vars

(***************************************************************************)
(* albix.py: the playlist and the index of the current song.  The list     *)
(* widget holds one row per playlist entry, in the same order; Python's    *)
(* row r is the entry r + 1 of the sequence.                               *)
(***************************************************************************)
AudioFiles == {"a.mp3", "b.ogg"}
VideoFiles == {"c.mp4"}
OtherFiles == {"d.txt"}
MediaFiles == AudioFiles \cup VideoFiles

\* lines 621-634: the type by the file's extension; "none" for one not supported
MediaType(file_path) ==
    IF file_path \in VideoFiles THEN "video"
    ELSE IF file_path \in AudioFiles THEN "audio"
    ELSE "none"

Entry(file_path) == [path |-> file_path, type |-> MediaType(file_path)]

InPlaylist(list, file_path) == \E i \in 1..Len(list) : list[i].path = file_path

\* lines 616-642: the chosen files are appended in order; duplicates and files
\* of an unsupported format are skipped
RECURSIVE Appended(_, _)
Appended(list, files) ==
    IF files = << >> THEN list
    ELSE IF InPlaylist(list, Head(files)) \/ MediaType(Head(files)) = "none"
    THEN Appended(list, Tail(files))
    ELSE Appended(Append(list, Entry(Head(files))), Tail(files))

\* the selections of the file dialog: one file, or two different files
ChosenFiles ==
    LET all == MediaFiles \cup OtherFiles
    IN  {<<f>> : f \in all} \cup {p \in all \X all : p[1] # p[2]}

add_songs(files) ==
    /\ playlist' = Appended(playlist, files)
    /\ UNCHANGED <<current_song_index, shuffle_mode>>
    /\ UNCHANGED <<bpVars, osdVars>>

\* lines 662-669: the selected rows are popped one by one
RECURSIVE WithoutRows(_, _, _)
WithoutRows(list, rows, r) ==
    IF list = << >> THEN << >>
    ELSE IF r \in rows THEN WithoutRows(Tail(list), rows, r + 1)
    ELSE <<Head(list)>> \o WithoutRows(Tail(list), rows, r + 1)

remove_songs(rows) ==
    /\ rows # {}
    /\ rows \subseteq 0..(Len(playlist) - 1)
    /\ LET rest == WithoutRows(playlist, rows, 0)
       IN  /\ playlist' = rest
           /\ current_song_index' = IF current_song_index >= Len(rest) THEN Len(rest) - 1
                                     ELSE current_song_index
    /\ UNCHANGED shuffle_mode
    /\ UNCHANGED <<bpVars, osdVars>>

\* a double click on row `row` makes it the widget's current row
play_selected_song(row) ==
    /\ row \in 0..(Len(playlist) - 1)
    /\ current_song_index' = row
    /\ UNCHANGED <<playlist, shuffle_mode>>
    /\ UNCHANGED <<bpVars, osdVars>>

play_radio_station ==
    /\ current_song_index' = -1
    /\ UNCHANGED <<playlist, shuffle_mode>>
    /\ UNCHANGED <<bpVars, osdVars>>

toggle_shuffle ==
    /\ shuffle_mode' = ~shuffle_mode
    /\ UNCHANGED <<playlist, current_song_index>>
    /\ UNCHANGED <<bpVars, osdVars>>

next_song ==
    /\ playlist # << >>
    /\ IF shuffle_mode
       THEN current_song_index' \in 0..(Len(playlist) - 1)
       ELSE IF current_song_index + 1 < Len(playlist)
       THEN current_song_index' = current_song_index + 1
       ELSE UNCHANGED current_song_index
    /\ UNCHANGED <<playlist, shuffle_mode>>
    /\ UNCHANGED <<bpVars, osdVars>>

prev_song ==
    /\ playlist # << >>
    /\ IF shuffle_mode
       THEN current_song_index' \in 0..(Len(playlist) - 1)
       ELSE IF current_song_index - 1 >= 0
       THEN current_song_index' = current_song_index - 1
       ELSE current_song_index' = 0
    /\ UNCHANGED <<playlist, shuffle_mode>>
    /\ UNCHANGED <<bpVars, osdVars>>

\* the playlists a JSON file may hold: any list of entries with 'path' and 'type'
RECURSIVE ListsOfEntries(_)
ListsOfEntries(n) ==
    IF n = 0 THEN {<< >>}
    ELSE ListsOfEntries(n - 1)
         \cup {Append(l, Entry(f)) : l \in {k \in ListsOfEntries(n - 1) : Len(k) = n - 1},
                                     f \in MediaFiles}

load_playlist(data) ==
    /\ playlist' = data
    /\ UNCHANGED <<current_song_index, shuffle_mode>>
    /\ UNCHANGED <<bpVars, osdVars>>

NextAlbix ==
    \/ \E files \in ChosenFiles : add_songs(files)
    \/ \E rows \in SUBSET (0..(Len(playlist) - 1)) : remove_songs(rows)
    \/ \E row \in 0..(Len(playlist) - 1) : play_selected_song(row)
    \/ play_radio_station
    \/ toggle_shuffle
    \/ next_song
    \/ prev_song
    \/ \E data \in ListsOfEntries(MaxLoaded) : load_playlist(data)

\* Nothing but the player runs.
SpecAlbix == InitPoll /\ [][NextAlbix]_vars

(***************************************************************************)
(* Claims about the poller and the store, under SpecPoll                   *)
(***************************************************************************)

\* C1: a pactl query that exits non-zero leaves the held snapshot as it was and
\* raises no change event: a poll tick one of whose listings failed queues no
\* emit_devices_updated, and a refresh step keeps every field whose query failed.
C1_FailedQueryKeepsSnapshot ==
    [][ /\ (failed' # {} /\ poll_pc = "list_sources" /\ poll_pc' = "sleep") => devq' = devq
        /\ "sinks" \in failed' => sinks' = sinks
        /\ "sources" \in failed' => sources' = sources
        /\ "default_sink" \in failed' => default_sink' = default_sink
        /\ "default_source" \in failed' => default_source' = default_source ]_vars

\* C2: a poll tick whose sink and source listings both equal the listings the
\* poller obtained just before (the previous tick's, or the baseline's) queues no
\* emit_devices_updated.
C2_EqualListingsNoNotification ==
    (tick.done /\ tick.same_sinks /\ tick.same_sources) => tick.emitted = 0

C2_Witness ==
    /\ tick.done /\ tick.same_sinks /\ tick.same_sources
    /\ tick.sinks # << >>
    /\ poll_pc = "sleep"
    /\ env_steps > 0

\* C3: a poll tick that lists the same sinks as the one before and other sources
\* queues exactly one emit_devices_updated, and the refresh that notification
\* runs leaves the held sinks equal to the sinks held before it.  (Stated for the
\* ticks whose queries all succeeded, with the held sinks equal to the polled
\* ones and the mixer's sinks unchanged until the refresh.)
C3_SourcesOnlyChange ==
    [][ /\ (poll_pc = "list_sources" /\ poll_pc' = "sleep"
             /\ tick'.same_sinks /\ ~tick'.same_sources)
            => devq' = devq + 1
        /\ (watch.on /\ devq' = devq - 1) => sinks' = watch.held ]_vars

(***************************************************************************)
(* Claims about the pairing sessions                                       *)
(***************************************************************************)

\* The session states of the specification, as the place in
\* Idle -> Connecting -> Pairing -> SettingProfile -> MatchingEndpoints -> Done
\* (0..5) that an operation belongs to; Failed is 6.
Rank(op) ==
    CASE op = "locate" -> 1
      [] op \in {"trusted", "pair_ok", "pair_already_exists", "pair_error",
                 "connect_ok", "connect_error", "result_true"} -> 2
      [] op = "profile" -> 3
      [] op = "match" -> 4
      [] op = "done" -> 5
      [] op \in {"result_false", "failed"} -> 6

SessionState(i) ==
    IF slog[i].ops = << >> THEN 0 ELSE Rank(slog[i].ops[Len(slog[i].ops)])

\* What is still to run for session i: its worker, its timers, its call in the
\* GUI thread; and its results waiting for pairing_finished.
Steps(i) ==
    (IF pair_worker.sid = i /\ pair_worker.pc \notin {"none", "finished", "raised"}
     THEN 1 ELSE 0)
    + (IF i \in profile_timers THEN 1 ELSE 0)
    + Cardinality({t \in session_timers : t.sid = i})
    + (IF gui_call.sid = i THEN 1 ELSE 0)

Reports(i) == Cardinality({k \in DOMAIN pair_results : pair_results[k].sid = i})

Tokens(i) == Steps(i) + Reports(i)

Active(i) == SessionState(i) \in 1..4 /\ Tokens(i) > 0

\* C4: no reachable state has two sessions for different addresses that are
\* both between Connecting and MatchingEndpoints with work still to run.
C4_OneActiveSession ==
    \A i, j \in DOMAIN slog : (Active(i) /\ Active(j)) => slog[i].addr = slog[j].addr

\* C5: a Pair-button press or double click for an address, made while a session
\* for another address is active, starts nothing: the worker, the queued results,
\* the pending timers, the buttons, the GUI thread's call and the daemon's
\* connections stay as they were.
C5_SecondRequestRejected ==
    [][ ( /\ Len(slog') = Len(slog) + 1
          /\ slog'[Len(slog')].path # "sweep"
          /\ \E i \in DOMAIN slog : Active(i) /\ slog[i].addr # slog'[Len(slog')].addr )
        => UNCHANGED <<pairVars, gui_pc, gui_call, bt_connected>> ]_vars

\* C6: the operations of every session come in the order of the states
\* Connecting, Pairing, SettingProfile, MatchingEndpoints, Done; the first one is
\* the lookup of the device by address; nothing follows Done or Failed; and a
\* session never has two steps pending at once, nor any after Done or Failed
\* (a failure may still wait to be shown by pairing_finished).
C6_SessionOrder ==
    \A i \in DOMAIN slog :
        LET ops == slog[i].ops
        IN  /\ ops # << >> => ops[1] = "locate"
            /\ \A k \in 1..(Len(ops) - 1) :
                   Rank(ops[k]) <= Rank(ops[k + 1]) /\ Rank(ops[k]) < 5
            /\ Tokens(i) <= 1
            /\ SessionState(i) >= 5 => Steps(i) = 0

HasOp(i, op) == \E k \in DOMAIN slog[i].ops : slog[i].ops[k] = op

C6_Witness ==
    \E i \in DOMAIN slog :
        /\ slog[i].path = "pair"
        /\ \A op \in {"locate", "pair_ok", "connect_ok", "result_true", "profile",
                      "match", "done"} : HasOp(i, op)

\* C7: after Pair() is answered with AlreadyExists the next operation of the
\* session is Connect(), not a failure report; and when that Connect() succeeds
\* the result that is emitted and queued for pairing_finished is success = True.
C7_AlreadyExistsConnects ==
    /\ \A i \in DOMAIN slog :
         LET ops == slog[i].ops
         IN  \A k \in DOMAIN ops :
                 ops[k] = "pair_already_exists" =>
                     /\ k < Len(ops) => ops[k + 1] \in {"connect_ok", "connect_error"}
                     /\ (k < Len(ops) /\ ops[k + 1] = "connect_ok")
                            => (k + 1 < Len(ops) /\ ops[k + 2] = "result_true")
    /\ \A k \in DOMAIN pair_results :
         (HasOp(pair_results[k].sid, "pair_already_exists")
              /\ HasOp(pair_results[k].sid, "connect_ok"))
            => pair_results[k].success

C7_Witness ==
    \E k \in DOMAIN pair_results :
        /\ HasOp(pair_results[k].sid, "pair_already_exists")
        /\ HasOp(pair_results[k].sid, "connect_ok")
        /\ pair_results[k].success

\* The sinks of `list` whose name starts with bluez_sink.<address lowercased,
\* ':' replaced by '_'>, by position.
SinkPositions(list, address) ==
    {k \in DOMAIN list : StartsWith(list[k], BluezSinkDot \o PaAddress(address))}

MatchStep  == gui_pc = "settle" /\ gui_pc' = "refresh_lists" /\ gui_call.kind = "session"
FinishStep == gui_pc = "refresh_defaults" /\ gui_pc' = "idle" /\ gui_call.kind = "session"

\* C8: when the sinks listed after the profile switch hold a name with the
\* device's prefix, the first such name is the one chosen, and when the session
\* ends it is the mixer's default sink and the controller's default_sink.
C8_MatchedSinkIsDefault ==
    [][ /\ (MatchStep /\ SinkPositions(sinks', gui_call.addr) # {})
            => \E k \in SinkPositions(sinks', gui_call.addr) :
                   /\ \A j \in SinkPositions(sinks', gui_call.addr) : k <= j
                   /\ gui_call'.sink = sinks'[k]
        /\ (FinishStep /\ gui_call.sink # Empty)
            => /\ m_default_sink' = gui_call.sink
               /\ default_sink' = gui_call.sink ]_vars

\* C9: when no sink listed after the profile switch has the device's prefix, the
\* mixer's default sink and the controller's default_sink stay as they were
\* (for a default_sink that was the mixer's), and the session still ends in Done.
C9_NoMatchKeepsDefault ==
    [][ /\ (MatchStep /\ SinkPositions(sinks', gui_call.addr) = {})
            => /\ m_default_sink' = m_default_sink
               /\ default_sink' = default_sink
        /\ (FinishStep /\ gui_call.sink = Empty /\ default_sink = m_default_sink)
            => /\ default_sink' = default_sink
               /\ slog'[gui_call.sid].ops[Len(slog'[gui_call.sid].ops)] = "done" ]_vars

\* C10: the card whose profile is switched for a session started with the Pair
\* button is the card of the address that was paired.
C10_PairedDevicesCard ==
    \A i \in DOMAIN slog :
        (slog[i].path = "pair" /\ slog[i].card # Empty)
            => StartsWith(slog[i].card, BluezCardDot \o PaAddress(slog[i].addr))

(***************************************************************************)
(* Claims about the daemon's signals, under SpecSignal                     *)
(***************************************************************************)

\* C11: the Connected signals that arrive while a refresh is pending share that
\* refresh: there is never more than one single-shot refresh_all_devices
\* pending (under SpecSignal only device_property_changed starts them, and
\* every pending one is executed).
C11_SignalsShareOneRefresh == refresh_timers <= 1

(***************************************************************************)
(* Claims about the mixer surface, under SpecVolume                        *)
(***************************************************************************)

\* C12: when set_sink_volume_cmd(sink, v) and the get_sink_volume_cmd(sink) after
\* it both succeed, the volume returned is v, for every listed sink and every v
\* in 0..100.
C12_VolumeRoundTrip ==
    (vol.pc = "got" /\ vol.ok) => vol.got = vol.req

(***************************************************************************)
(* Further claims about the pairing sessions and the GUI thread            *)
(***************************************************************************)

\* The GUI thread is inside a handler, between two of its pactl calls or in the
\* time.sleep(2) after set_card_profile.
GuiThreadInExternalCall == gui_pc \in {"settle", "refresh_lists", "refresh_defaults"}

\* C13: the GUI thread is never the one that runs a pactl call, a Connect() or
\* the settle sleep: it is never found inside such a call.
C13_GuiThreadNeverBlocks == ~GuiThreadInExternalCall

\* The held default sink, when there is one, is one of the held sinks.
DefaultSinkIsHeld == default_sink = Empty \/ InSeq(default_sink, sinks)

\* The mixer's own default sink is one of the sinks it lists.
MixerDefaultIsListed == InSeq(m_default_sink, m_sinks)

\* C14: whenever the held default sink is not among the held sinks, the poller
\* and the refresh it causes bring them back together (or the mixer itself is
\* left with a default that it does not list).
C14_DefaultSinkEventuallyListed ==
    (~DefaultSinkIsHeld) ~> (DefaultSinkIsHeld \/ ~MixerDefaultIsListed)

(***************************************************************************)
(* Claims about failing sessions, under SpecSession                        *)
(***************************************************************************)

NotFoundOps == {<< >>, <<"locate", "result_false">>, <<"locate", "failed">>}

DeviceAbsent(i) == slog[i].addr \notin bt_tree

\* C15: a request for an address that the daemon's object tree does not hold
\* does the lookup and fails: its only operations are the lookup and the failure
\* (no Trusted, Pair, Connect or profile switch), the result it queues is
\* success = False, no timer is started for it, and the step that records the
\* failure leaves the mixer, the held lists and defaults, and the daemon's
\* pairings and connections as they were.
C15_AbsentDeviceFails ==
    [][ \A i \in DOMAIN slog' :
          (slog'[i].addr \notin bt_tree') =>
              /\ slog'[i].ops \in NotFoundOps
              /\ slog'[i].card = Empty
              /\ i \notin profile_timers'
              /\ \A t \in session_timers' : t.sid # i
              /\ gui_call'.sid # i
              /\ \A k \in DOMAIN pair_results' :
                     pair_results'[k].sid = i => ~pair_results'[k].success
              /\ (i \notin DOMAIN slog \/ slog[i].ops # slog'[i].ops)
                     => UNCHANGED <<mixerVars, ctlVars, btVars>> ]_vars

C15_Witness ==
    \E i \in DOMAIN slog :
        /\ DeviceAbsent(i)
        /\ slog[i].path = "pair"
        /\ slog[i].ops = <<"locate", "result_false">>
        /\ pair_worker.pc = "none"
        /\ buttons_enabled

\* The address whose card a session's profile step looks up: the one found in
\* the list of sinks and sources after the Pair button, the session's own otherwise.
LookupAddress(i) ==
    IF slog'[i].path = "pair" THEN get_recent_bluetooth_address(sinks', sources')
    ELSE slog'[i].addr

\* This step is the card lookup of session i.
CardLookup(i) ==
    \/ i \in profile_timers /\ i \notin profile_timers' /\ LookupAddress(i) # Empty
    \/ \E t \in session_timers : t.sid = i /\ t \notin session_timers'
    \/ /\ i \notin DOMAIN slog
       /\ slog'[i].path = "click"
       /\ slog'[i].addr \in bt_tree \cap bt_connected

LastOp(ops) == ops[Len(ops)]

\* C16: when the card lookup of a session finds no card (none listed with the
\* address's prefix, or pactl list cards failed), the session's next and last
\* operation is the failure: no profile is switched, nothing is left to run for
\* the session, and the mixer's defaults and the held default_sink and
\* default_source are as before; a profile is only ever switched on a card that
\* the lookup returned.
C16_NoCardIsFatal ==
    [][ \A i \in DOMAIN slog' :
          /\ (CardLookup(i) /\ get_card_for_device(LookupAddress(i), "cards" \in failed') = Empty)
                => /\ LastOp(slog'[i].ops) = "failed"
                   /\ slog'[i].card = Empty
                   /\ gui_call'.sid # i
                   /\ i \notin profile_timers'
                   /\ \A t \in session_timers' : t.sid # i
                   /\ UNCHANGED <<mixerVars, default_sink, default_source>>
          /\ (\E k \in DOMAIN slog'[i].ops : slog'[i].ops[k] \in {"profile", "match", "done"})
                => slog'[i].card # Empty ]_vars

C16_Witness ==
    \E i \in DOMAIN slog :
        /\ slog[i].ops = <<"locate", "connect_ok", "failed">>
        /\ get_card_for_device(slog[i].addr, FALSE) = Empty
        /\ Tokens(i) = 0

\* C17: a session that has begun and is not yet Done or Failed still has
\* something to run (its worker, a result to handle, a timer, or the GUI
\* thread's call), so that it goes on until Done or Failed is reported; no
\* session is left in an intermediate state with nothing more to come.
C17_SessionsRunToTheEnd ==
    \A i \in DOMAIN slog : SessionState(i) \in 1..4 => Tokens(i) > 0

\* C18: every session that has failed and has nothing left to run, and every
\* unpair request whose failure has been handled, has shown exactly one
\* error message.
C18_OneMessagePerFailure ==
    /\ \A i \in DOMAIN slog :
          (SessionState(i) = 6 /\ Tokens(i) = 0) => slog[i].msgs = 1
    /\ \A u \in DOMAIN unpair_log :
          unpair_log[u].result = "failure" => unpair_log[u].msgs = 1

(***************************************************************************)
(* Claims about unpairing, under SpecUnpair                                *)
(***************************************************************************)

\* C19: for every unpair request whose result has been handled, one
\* bluetooth_devices_updated was emitted if RemoveDevice succeeded and none if it
\* did not (or was never called); none is emitted before the result is handled.
C19_ListRefreshIffRemoved ==
    \A u \in DOMAIN unpair_log :
        /\ unpair_log[u].refreshes = IF unpair_log[u].result # "none" /\ unpair_log[u].removed
                                     THEN 1 ELSE 0
        /\ unpair_log[u].result = "success" <=> (unpair_log[u].result # "none"
                                                   /\ unpair_log[u].removed)

C19_Witness ==
    \E u, w \in DOMAIN unpair_log :
        /\ unpair_log[u].result = "success" /\ unpair_log[u].removed
        /\ unpair_log[u].refreshes = 1
        /\ unpair_log[w].result = "failure" /\ ~unpair_log[w].removed
        /\ unpair_log[w].refreshes = 0

(***************************************************************************)
(* A further claim about the poller and the store, under SpecPoll          *)
(***************************************************************************)

\* C20: when the GUI thread takes a queued "devices changed" notification, the
\* held sinks and sources already are the listing the poller saw when it
\* raised it.
C20_PublishedBeforeNotified ==
    [][ (devq' = devq - 1)
          => (sinks = previous_sinks /\ sources = previous_sources) ]_vars

\* A tick of the poller ends in this step.
TickEnds == poll_pc = "list_sources" /\ poll_pc' = "sleep"

\* C21: a failed listing does not end the polling loop (after it the poller is
\* asleep until its next tick, and lists again), and a tick whose queries
\* succeed, made when the mixer's lists are not what they were at the queries of
\* the tick before (failed or not), raises the notification.
C21_PollerSurvivesFailures ==
    [][ /\ (poll_pc # poll_pc') => poll_pc' \in {"sleep", "list_sources"}
        /\ (TickEnds /\ failed' = {} /\ tick'.genuine) => tick'.emitted = 1 ]_vars

(***************************************************************************)
(* A claim about leaving the application, under SpecMain                   *)
(***************************************************************************)

PollerInLoop == poll_pc \in {"start", "sleep", "list_sources"}

WorkerRunning ==
    \/ pair_worker.pc \notin {"none", "finished", "raised"}
    \/ unpair_worker.pc \notin {"none", "finished"}

\* C22: once main() has left the event loop and ended, the agent is not
\* registered any more, the PropertiesChanged receiver has been removed, the
\* GLib loop has been stopped, and neither the polling thread nor a pair or
\* unpair worker is still in its code.
C22_CleanShutdown ==
    main_pc = "exited" =>
        /\ ~agent_registered
        /\ ~receiver_added
        /\ glib_loop = "stopped"
        /\ ~PollerInLoop
        /\ ~WorkerRunning

(***************************************************************************)
(* Claims about the workers and the buttons                                *)
(***************************************************************************)

ResultOps(i) ==
    Cardinality({k \in DOMAIN slog[i].ops : slog[i].ops[k] \in {"result_true", "result_false"}})

PairWorkerEnded == pair_worker.pc \in {"finished", "raised"}

\* C23: every run of PairWorker.pair emits pairingResult exactly once: none
\* while the worker is still at its daemon calls, one (queued for
\* pairing_finished) when pair() has ended, and that one has been handled when
\* the worker is gone; the buttons are disabled exactly while a worker exists.
C23_OneResultPerPairing ==
    /\ \A i \in DOMAIN slog :
          slog[i].path = "pair" =>
              /\ ResultOps(i) <= 1
              /\ (pair_worker.sid = i /\ ~PairWorkerEnded)
                     => (ResultOps(i) = 0 /\ Reports(i) = 0)
              /\ (pair_worker.sid = i /\ PairWorkerEnded)
                     => (ResultOps(i) = 1 /\ Reports(i) = 1)
              /\ pair_worker.sid # i => (ResultOps(i) = 1 /\ Reports(i) = 0)
    /\ unpair_worker.pc = "none" => (buttons_enabled <=> pair_worker.pc = "none")

PairWorkerOut   == pair_worker.pc # "none"
UnpairWorkerOut == unpair_worker.pc # "none"

\* C24: a pair worker and an unpair worker are never out together; while one is
\* out (from the button press until its result has been handled) both buttons
\* are disabled, and it is not replaced by another worker.
C24_OneWorkerAtATime ==
    [][ /\ ~(PairWorkerOut' /\ UnpairWorkerOut')
        /\ (PairWorkerOut' \/ UnpairWorkerOut') => ~buttons_enabled'
        /\ (PairWorkerOut /\ PairWorkerOut')
              => (pair_worker'.sid = pair_worker.sid /\ Len(slog') = Len(slog))
        /\ (UnpairWorkerOut /\ UnpairWorkerOut')
              => (unpair_worker'.uid = unpair_worker.uid
                  /\ Len(unpair_log') = Len(unpair_log)) ]_vars

C24_Witness ==
    /\ PairWorkerOut
    /\ pair_worker.pc = "connect"
    /\ ~buttons_enabled
    /\ \E u \in DOMAIN unpair_log : unpair_log[u].result = "failure"

\* C25: when the daemon's object tree holds a device with the requested address
\* (and its adapter), the lookup of UnpairWorker.unpair goes on to
\* RemoveDevice, whatever the order in which the tree lists the two.
C25_RemoveDeviceInvoked ==
    [][ ( /\ unpair_worker.pc = "locate"
          /\ unpair_worker'.pc # "locate"
          /\ unpair_worker.addr \in bt_tree )
        => unpair_worker'.pc = "remove" ]_vars

(***************************************************************************)
(* A claim about the held lists in the long run, under SpecPollLive        *)
(***************************************************************************)

HeldListsAreMixers == sinks = m_sinks /\ sources = m_sources

RefreshCompletes ==
    /\ gui_pc = "refresh_defaults"
    /\ gui_pc' = "idle"
    /\ failed = {}
    /\ failed' = {}

\* C27: when refresh_audio_devices has completed with every query answered, the
\* output selector shows the sink named by default_sink whenever that name is
\* in the refreshed list, and the input selector the source named by
\* default_source likewise, also when another client changed the mixer's
\* default since the refresh before.
C27_SelectorShowsDefault ==
    [][ RefreshCompletes =>
          /\ InSeq(default_sink', sinks') => device_selector' = default_sink'
          /\ InSeq(default_source', sources') => input_selector' = default_source' ]_vars

\* C28: after set_volume(v) with v > 0 the current default sink is unmuted
\* in the mixer, whatever made default_sink what it is (change_sink, the
\* endpoint assignment of a pairing session or refresh_audio_devices); no other
\* client touches the mute switches.
SetVolumeRan == volume_call'.turn # volume_call.turn

C28_SetVolumeUnmutes ==
    [][ (SetVolumeRan /\ volume_call'.value > 0 /\ failed' = {} /\ KnownSink(default_sink'))
          => ~m_mute'[default_sink'] ]_vars

(***************************************************************************)
(* Claims about the key reader of osd.py, under SpecOsd                    *)
(***************************************************************************)
\* C29: alt_pressed is true exactly when at least one Alt key, left or right,
\* is held, whatever keys went down and up before, events dropped by the
\* minimum-interval filter and both Alt keys pressed together included.
C29_AltPressedIffAltHeld ==
    alt_pressed <=> (kbd_held \cap AltKeys # {})

(***************************************************************************)
(* Claims about the player of albix.py, under SpecAlbix                    *)
(***************************************************************************)
\* C30: whatever add_songs, remove_songs, load_playlist, play_selected_song,
\* next_song, prev_song and play_radio_station did, current_song_index is
\* between -1 and len(playlist) - 1.
C30_IndexWithinPlaylist ==
    current_song_index \in (-1)..(Len(playlist) - 1)

====
